---- MODULE Spec2Model ----
(***************************************************************************)
(* Credential and session security of ortopedia-cemydi-web (NestJS         *)
(* backend): login with brute-force lockout, access / refresh tokens,      *)
(* logout and revocation, TOTP second factor.                              *)
(*                                                                         *)
(* Time is counted in minutes.  Every handler reads the clock once; two    *)
(* handlers may read the same clock value (the clock has a finite          *)
(* resolution: milliseconds for Date, seconds for the iat/exp of a JWT).   *)
(***************************************************************************)
EXTENDS Integers, Sequences, FiniteSets, TLC

----------------------------------------------------------------------------
(* Program constants *)

MAX_LOGIN_ATTEMPTS == 5
LOCKOUT_DURATION_MINUTES == 15
ATTEMPT_WINDOW_MINUTES == 15
JWT_EXPIRES_IN == 10
MFA_TOKEN_EXPIRES_IN == 5
REFRESH_TOKEN_DAYS == 7
MinutesPerDay == 24 * 60
TOKEN_EXPIRATION_MINUTES == 10
MAX_ATTEMPTS_PER_HOUR == 3
MAX_ATTEMPTS_PER_HOUR_BY_IP == 5
RATE_LIMIT_WINDOW_HOURS == 1
VERIFICATION_EXPIRES_HOURS == 24
MinutesPerHour == 60

(* Exploration bounds *)

MaxTime == 30
MaxWeeks == 1
MaxSessionTime == 15
MaxTokens == 3
MaxRecoveryTime == 90
MaxResetTokens == 4

----------------------------------------------------------------------------
(* Data *)

Users == {"ana", "bob"}
UnknownEmail == "eve"
Emails == Users \cup {UnknownEmail}
Passwords == {"pw1", "pw2"}
Secrets == {"s1", "s2"}
TotpCodes == Secrets \cup {"000000"}
Ips == {"ip1"}
\* what resend.emails.send does: delivers, returns {data: null, error}, or throws
SendOutcomes == {"sent", "error", "throws"}
\* the candidate passwords of register and resetPassword, by the properties that
\* the validation reads: length and the character classes present
PasswordShape ==
  [pw1   |-> [length |-> 10, lower |-> TRUE, upper |-> TRUE, digit |-> TRUE, symbol |-> TRUE],
   pw2   |-> [length |-> 12, lower |-> TRUE, upper |-> TRUE, digit |-> TRUE, symbol |-> TRUE],
   short |-> [length |-> 6, lower |-> TRUE, upper |-> TRUE, digit |-> TRUE, symbol |-> TRUE],
   plain |-> [length |-> 9, lower |-> TRUE, upper |-> FALSE, digit |-> TRUE, symbol |-> FALSE]]
NewPasswords == DOMAIN PasswordShape

Null == -1
None == "none"
NoToken == [sub |-> None, iat |-> Null, exp |-> Null, mfaPending |-> FALSE]
NoRow == [id |-> 0, token |-> 0, userId |-> None, expiresAt |-> Null]

Procs == {1, 2}
NoCall == [pc |-> "idle", email |-> None, read |-> 0, id |-> 0, secret |-> None]
Idle == [pc |-> "idle", refreshToken |-> 0, tokenRecord |-> NoRow, result |-> None,
         refresh |-> 0]

\* the requests the browser has under way: the application's and, after
\* them, those that the interceptor makes itself (refresh, logout)
ApiRequests == {1, 2}
ChildRequests == {3, 4}
Requests == ApiRequests \cup ChildRequests
NoRequest == [pc |-> "idle", url |-> None, parent |-> 0]
\* let isRefreshing = false; let failedQueue = []; empty localStorage
NoClient == [token |-> NoToken, refreshToken |-> 0, isRefreshing |-> FALSE,
             failedQueue |-> <<>>, requests |-> [r \in Requests |-> NoRequest]]

VARIABLES
  now,            \* the clock, in minutes
  users,          \* table users: id -> record
  loginAttempts,  \* table login_attempts: set of rows
  refreshTokens,  \* table refresh_tokens: set of rows
  revokedTokens,  \* table revoked_tokens: set of rows
  nextTok,        \* number of opaque random tokens generated so far
  issued,         \* signed JWTs handed to clients that have not expired yet
  procs,          \* in-flight (non-atomic) refreshAccessToken calls
  fails,          \* history: per email, times of the failed logins since the last
                  \* success that are still inside the attempt window
  lastLogin,      \* history: per email, the outcome of its latest login call
  consumed,       \* history: refresh-token values that were rotated away
  tornDown,       \* history: refresh-token values deleted by a logout
  mfaFailed,      \* history: pending assertions that had a rejected TOTP code
  last,           \* the last call and what it returned
  passwordResets,         \* table password_resets: set of rows
  passwordResetAttempts,  \* table password_reset_attempts: set of rows
  emailVerifications,     \* table email_verifications: set of rows
  mails,          \* the calls made to the notifier (ResendService) and their outcome
  tokenFate,      \* history: per recovery token, its kind, owner and fate
  calls,          \* in-flight (non-atomic) recordFailedLoginAttempt calls
  client          \* the browser: localStorage and the module state of lib/axios.ts

RecoveryVars == <<passwordResets, passwordResetAttempts, emailVerifications,
                  mails, tokenFate>>

vars == <<now, users, loginAttempts, refreshTokens, revokedTokens, nextTok,
          issued, procs, fails, lastLogin, consumed, tornDown, mfaFailed, last,
          passwordResets, passwordResetAttempts, emailVerifications, mails,
          tokenFate, calls, client>>

----------------------------------------------------------------------------
(* Token Codec *)

\* jwtService.sign(payload [, {expiresIn}]): iat is the clock, exp = iat + ttl;
\* HS256 over a fixed header and this payload is deterministic, so the token
\* is determined by its claims.
jwtSign(sub, pending, t) ==
  [sub |-> sub, iat |-> t,
   exp |-> t + (IF pending THEN MFA_TOKEN_EXPIRES_IN ELSE JWT_EXPIRES_IN),
   mfaPending |-> pending]

\* jwtService.verify / passport-jwt with ignoreExpiration: false
jwtVerify(tok, t) == tok \in issued /\ t < tok.exp

\* generateRefreshToken(): 64 random bytes, modelled as a value never seen before
generateRefreshToken == nextTok + 1

RefreshExpiry(t) == t + REFRESH_TOKEN_DAYS * MinutesPerDay

----------------------------------------------------------------------------
(* Users *)

findByEmail(email) == IF email \in DOMAIN users THEN email ELSE None

bcryptCompare(password, u) == password = users[u].password

----------------------------------------------------------------------------
(* Attempt counter of login *)

NewId(rows) == CHOOSE i \in 1..(Cardinality(rows) + 1) : \A r \in rows : r.id # i

\* prisma.loginAttempt.findFirst({where, orderBy: {lastAttemptAt: 'desc'}})
findFirstDesc(rows) ==
  CHOOSE r \in rows : \A q \in rows : q.lastAttemptAt <= r.lastAttemptAt

\* prisma.<table>.update({where: {id}, data}): the fields of data overwrite the row
updateRow(rows, id, data) ==
  {IF r.id = id
     THEN [f \in DOMAIN r |-> IF f \in DOMAIN data THEN data[f] ELSE r[f]]
     ELSE r : r \in rows}

\* faulty variant: the delete is lost
resetLoginAttempts_keep(rows, email) == rows

resetLoginAttempts(rows, email) == {r \in rows : r.email # email}

\* faulty variant: attempts > MAX_LOGIN_ATTEMPTS instead of >=
checkBruteForceProtection_gt(rows, email, t) ==
  LET mine == {r \in rows : r.email = email} IN
  IF mine = {} THEN [locked |-> FALSE, rows |-> rows]
  ELSE
    LET loginAttempt == findFirstDesc(mine)
        attemptWindow == t - ATTEMPT_WINDOW_MINUTES
        lockedUntil == t + LOCKOUT_DURATION_MINUTES
    IN
    IF loginAttempt.lockedUntil # Null /\ loginAttempt.lockedUntil > t
      THEN [locked |-> TRUE, rows |-> rows]
    ELSE IF loginAttempt.lastAttemptAt < attemptWindow
      THEN [locked |-> FALSE, rows |-> resetLoginAttempts(rows, email)]
    ELSE IF loginAttempt.attempts > MAX_LOGIN_ATTEMPTS
      THEN [locked |-> TRUE, rows |-> updateRow(rows, loginAttempt.id, [lockedUntil |-> lockedUntil])]
    ELSE [locked |-> FALSE, rows |-> rows]

\* Returns [locked, rows]: whether the call throws, and the table afterwards.
checkBruteForceProtection(rows, email, t) ==
  LET mine == {r \in rows : r.email = email} IN
  IF mine = {} THEN [locked |-> FALSE, rows |-> rows]
  ELSE
    LET loginAttempt == findFirstDesc(mine)
        attemptWindow == t - ATTEMPT_WINDOW_MINUTES
        lockedUntil == t + LOCKOUT_DURATION_MINUTES
    IN
    IF loginAttempt.lockedUntil # Null /\ loginAttempt.lockedUntil > t
      THEN [locked |-> TRUE, rows |-> rows]
    ELSE IF loginAttempt.lastAttemptAt < attemptWindow
      THEN [locked |-> FALSE, rows |-> resetLoginAttempts(rows, email)]
    ELSE IF loginAttempt.attempts >= MAX_LOGIN_ATTEMPTS
      THEN [locked |-> TRUE, rows |-> updateRow(rows, loginAttempt.id, [lockedUntil |-> lockedUntil])]
    ELSE [locked |-> FALSE, rows |-> rows]

\* faulty variant: the counter is written as 1 instead of being incremented
recordFailedLoginAttempt_noIncrement(rows, email, t) ==
  LET attemptWindow == t - ATTEMPT_WINDOW_MINUTES
      mine == {r \in rows : r.email = email}
      recent == {r \in mine : r.lastAttemptAt >= attemptWindow}
  IN
  IF recent # {}
    THEN LET existingAttempt == findFirstDesc(recent) IN
         updateRow(rows, existingAttempt.id,
                   [attempts |-> 1, lastAttemptAt |-> t])
  ELSE IF mine # {}
    THEN LET oldAttempt == findFirstDesc(mine) IN
         updateRow(rows, oldAttempt.id,
                   [attempts |-> 1, lastAttemptAt |-> t, lockedUntil |-> Null])
  ELSE rows \cup {[id |-> NewId(rows), email |-> email, attempts |-> 1,
                   lastAttemptAt |-> t, lockedUntil |-> Null]}

recordFailedLoginAttempt(rows, email, t) ==
  LET attemptWindow == t - ATTEMPT_WINDOW_MINUTES
      mine == {r \in rows : r.email = email}
      recent == {r \in mine : r.lastAttemptAt >= attemptWindow}
  IN
  IF recent # {}
    THEN LET existingAttempt == findFirstDesc(recent) IN
         updateRow(rows, existingAttempt.id,
                   [attempts |-> existingAttempt.attempts + 1, lastAttemptAt |-> t])
  ELSE IF mine # {}
    THEN LET oldAttempt == findFirstDesc(mine) IN
         updateRow(rows, oldAttempt.id,
                   [attempts |-> 1, lastAttemptAt |-> t, lockedUntil |-> Null])
  ELSE rows \cup {[id |-> NewId(rows), email |-> email, attempts |-> 1,
                   lastAttemptAt |-> t, lockedUntil |-> Null]}

----------------------------------------------------------------------------
(* Refresh tokens *)

cleanExpiredRefreshTokens(rows, u, t) ==
  {r \in rows : ~(r.userId = u /\ r.expiresAt < t)}

\* faulty variant: deleteMany without the userId filter
revokeAllRefreshTokens_everyone(rows, u) == {}

revokeAllRefreshTokens(rows, u) == {r \in rows : r.userId # u}

----------------------------------------------------------------------------
(* History *)

\* drop the failures that left the attempt window [t - 15, t]
RECURSIVE Recent(_, _)
Recent(h, t) ==
  IF h # <<>> /\ Head(h) < t - ATTEMPT_WINDOW_MINUTES THEN Recent(Tail(h), t) ELSE h

\* the times of the last MAX_LOGIN_ATTEMPTS failed logins inside the window
Remember(h, t) ==
  LET s == Recent(Append(h, t), t) IN
  IF Len(s) > MAX_LOGIN_ATTEMPTS THEN Tail(s) ELSE s

\* logged: the recovery tokens that the call wrote to the logger; payload: the
\* recovery tokens in its response body
Call(op, who, result, access, refresh, arg) ==
  [op |-> op, who |-> who, result |-> result, access |-> access,
   refresh |-> refresh, arg |-> arg, logged |-> {}, payload |-> {}]

Exposing(call, logged, payload) ==
  [call EXCEPT !.logged = logged, !.payload = payload]

----------------------------------------------------------------------------
(* Init *)

Init ==
  /\ now = 0
  /\ users = [u \in Users |->
               [emailVerified |-> TRUE, password |-> "pw1",
                mfaEnabled |-> FALSE, mfaSecret |-> None, lastLogoutAt |-> Null]]
  /\ loginAttempts = {}
  /\ refreshTokens = {}
  /\ revokedTokens = {}
  /\ nextTok = 0
  /\ issued = {}
  /\ procs = [p \in Procs |-> Idle]
  /\ fails = [e \in Emails |-> <<>>]
  /\ lastLogin = [e \in Emails |-> [result |-> None, cleared |-> 0]]
  /\ consumed = {}
  /\ tornDown = {}
  /\ mfaFailed = {}
  /\ last = Call("init", None, "ok", NoToken, 0, None)
  /\ passwordResets = {}
  /\ passwordResetAttempts = {}
  /\ emailVerifications = {}
  /\ mails = {}
  /\ tokenFate = <<>>
  /\ calls = [p \in Procs |-> NoCall]
  /\ client = NoClient

----------------------------------------------------------------------------
(* The clock *)

Week == REFRESH_TOKEN_DAYS * MinutesPerDay

Tick(d, horizon) ==
  /\ (now + d) % Week <= horizon
  /\ now + d <= MaxWeeks * Week + horizon
  /\ now' = now + d
  /\ issued' = {tok \in issued : now + d < tok.exp}
  /\ mfaFailed' = {tok \in mfaFailed : now + d < tok.exp}
  /\ fails' = [e \in Emails |-> Recent(fails[e], now + d)]
  /\ UNCHANGED <<users, loginAttempts, refreshTokens, revokedTokens, nextTok,
                 procs, lastLogin, consumed, tornDown, last>>
  /\ UNCHANGED <<RecoveryVars, calls, client>>

----------------------------------------------------------------------------
(* AuthService.login *)

Attempts(rows, email) ==
  IF \E r \in rows : r.email = email
    THEN findFirstDesc({r \in rows : r.email = email}).attempts
    ELSE 0

LoginRejected(email, password, result, rows, failed) ==
  /\ loginAttempts' = rows
  /\ fails' = IF failed THEN [fails EXCEPT ![email] = Remember(@, now)] ELSE fails
  /\ lastLogin' = [lastLogin EXCEPT ![email].result = result]
  /\ last' = Call("login", email, result, NoToken, 0, password)
  /\ UNCHANGED <<now, users, refreshTokens, revokedTokens, nextTok, issued,
                 procs, consumed, tornDown, mfaFailed>>
  /\ UNCHANGED <<RecoveryVars, calls, client>>

LoginMfaRequired(email, password, u, before, rows) ==
  LET mfaToken == jwtSign(u, TRUE, now) IN
  /\ loginAttempts' = rows
  /\ fails' = [fails EXCEPT ![email] = <<>>]
  /\ issued' = issued \cup {mfaToken}
  /\ lastLogin' = [lastLogin EXCEPT ![email] =
                     [result |-> "requiresMfa", cleared |-> Attempts(before, email)]]
  /\ last' = Call("login", email, "requiresMfa", mfaToken, 0, password)
  /\ UNCHANGED <<now, users, refreshTokens, revokedTokens, nextTok, procs,
                 consumed, tornDown, mfaFailed>>
  /\ UNCHANGED <<RecoveryVars, calls, client>>

LoginTokens(email, password, u, before, rows) ==
  LET accessToken == jwtSign(u, FALSE, now)
      refreshToken == generateRefreshToken
      row == [id |-> refreshToken, token |-> refreshToken, userId |-> u,
              expiresAt |-> RefreshExpiry(now)]
  IN
  /\ nextTok < MaxTokens
  /\ loginAttempts' = rows
  /\ fails' = [fails EXCEPT ![email] = <<>>]
  /\ nextTok' = refreshToken
  /\ refreshTokens' = cleanExpiredRefreshTokens(refreshTokens \cup {row}, u, now)
  /\ issued' = issued \cup {accessToken}
  /\ lastLogin' = [lastLogin EXCEPT ![email] =
                     [result |-> "ok", cleared |-> Attempts(before, email)]]
  /\ last' = Call("login", email, "ok", accessToken, refreshToken, password)
  /\ UNCHANGED <<now, users, revokedTokens, procs, consumed, tornDown, mfaFailed>>
  /\ UNCHANGED <<RecoveryVars, calls, client>>

Login(email, password) ==
  LET chk == checkBruteForceProtection(loginAttempts, email, now)
      u == findByEmail(email)
  IN
  IF chk.locked THEN LoginRejected(email, password, "locked", chk.rows, FALSE)
  ELSE IF u = None
    THEN LoginRejected(email, password, "invalid",
                       recordFailedLoginAttempt(chk.rows, email, now), TRUE)
  ELSE IF ~users[u].emailVerified
    THEN LoginRejected(email, password, "unverified",
                       recordFailedLoginAttempt(chk.rows, email, now), TRUE)
  ELSE IF ~bcryptCompare(password, u)
    THEN LoginRejected(email, password, "invalid",
                       recordFailedLoginAttempt(chk.rows, email, now), TRUE)
  ELSE IF users[u].mfaEnabled
    THEN LoginMfaRequired(email, password, u, chk.rows,
                          resetLoginAttempts(chk.rows, email))
  ELSE LoginTokens(email, password, u, chk.rows,
                   resetLoginAttempts(chk.rows, email))

----------------------------------------------------------------------------
(* Login and lockout: every behaviour keeps to one email, a registered one *)
(* or one that belongs to no account.                                      *)

LockoutEmails == {"ana", UnknownEmail}
LockoutSteps == {5, 15}

LoginOf(e, p) ==
  /\ \A f \in Emails \ {e} : lastLogin[f].result = None
  /\ Login(e, p)

NextLockout ==
  \/ \E d \in LockoutSteps : Tick(d, MaxTime)
  \/ \E e \in LockoutEmails, p \in Passwords : LoginOf(e, p)

SpecLockout == Init /\ [][NextLockout]_vars

----------------------------------------------------------------------------
(* Claims about the lockout *)

RowsOf(e) == {r \in loginAttempts : r.email = e}

Locked(e) == \E r \in RowsOf(e) : r.lockedUntil # Null /\ now < r.lockedUntil

LockExpired(e) ==
  /\ RowsOf(e) # {}
  /\ \A r \in RowsOf(e) : r.lockedUntil # Null /\ r.lockedUntil <= now

Granted == {"ok", "requiresMfa"}

CorrectPassword(e, p) ==
  e \in DOMAIN users /\ users[e].emailVerified /\ p = users[e].password

\* C1: after MAX_LOGIN_ATTEMPTS consecutive failed logins of an email that all
\* lie in the attempt window [now - 15, now], the next login of that email is
\* rejected as locked whatever the password, and so is every login made
\* while now < lockedUntil; a locked rejection signs no token.
C1_LockedAfterMaxFailures ==
  [][\A e \in Emails, p \in Passwords :
       (Login(e, p) /\ (Len(fails[e]) = MAX_LOGIN_ATTEMPTS \/ Locked(e)))
         => /\ last'.result = "locked"
            /\ issued' = issued
            /\ refreshTokens' = refreshTokens]_vars

\* C1 witness: a login with the correct password, made right after five
\* failures inside the window, was rejected as locked.
W1_CorrectPasswordLocked ==
  /\ last.op = "login" /\ last.result = "locked"
  /\ CorrectPassword(last.who, last.arg)
  /\ Len(fails[last.who]) = MAX_LOGIN_ATTEMPTS
  /\ Locked(last.who)

\* C2 (as claimed): once locked, a login with the correct password made at any
\* time now with lockedUntil <= now succeeds and leaves no login-attempt row.
C2_ExpiredLockAdmits ==
  [][\A e \in Emails, p \in Passwords :
       (Login(e, p) /\ LockExpired(e) /\ CorrectPassword(e, p))
         => /\ last'.result \in Granted
            /\ {r \in loginAttempts' : r.email = e} = {}]_vars

\* C3: a successful password check leaves no login-attempt row of the email,
\* and the first failed login after it yields a counter with attempts = 1,
\* whatever was counted before the success.
C3_SuccessClearsCounter ==
  [][\A e \in Emails, p \in Passwords :
       Login(e, p) =>
         /\ last'.result \in Granted
              => {r \in loginAttempts' : r.email = e} = {}
         /\ (lastLogin[e].result \in Granted /\ last'.result \notin Granted)
              => /\ last'.result # "locked"
                 /\ \E r \in loginAttempts' :
                      /\ r.email = e /\ r.attempts = 1 /\ r.lastAttemptAt = now
                      /\ \A q \in loginAttempts' : q.email = e => q = r]_vars

\* C3 witness: failures were counted, a success wiped them, and the failure
\* that followed was counted as the first.
W3_FirstFailureAfterSuccess ==
  /\ last.op = "login" /\ last.result = "invalid"
  /\ last.who \in Users
  /\ lastLogin[last.who].cleared >= 2
  /\ \E r \in RowsOf(last.who) : r.attempts = 1

\* the counter that the next failure of the email would increment
CountedInWindow(e) ==
  LET recent == {r \in RowsOf(e) : r.lastAttemptAt >= now - ATTEMPT_WINDOW_MINUTES} IN
  IF recent = {} THEN 0 ELSE findFirstDesc(recent).attempts

\* C18: a login for an email without account is treated as a login of a
\* registered email with a wrong password is: it is answered with the same
\* rejection, it leaves one attempt row of the email whose counter is one more
\* than what was counted in the window, and after 5 such calls within the
\* window the next login is answered with the lockout rejection.
C18_UnknownEmailCounted ==
  [][\A e \in Emails, p \in Passwords :
       (Login(e, p) /\ (findByEmail(e) = None \/ ~CorrectPassword(e, p))) =>
         /\ (Len(fails[e]) = MAX_LOGIN_ATTEMPTS \/ Locked(e)) => last'.result = "locked"
         /\ last'.result # "locked" =>
              /\ last'.result = (IF findByEmail(e) # None /\ ~users[e].emailVerified
                                   THEN "unverified" ELSE "invalid")
              /\ \E r \in loginAttempts' :
                   /\ r.email = e /\ r.lastAttemptAt = now
                   /\ r.attempts = CountedInWindow(e) + 1
                   /\ r.attempts >= Len(fails'[e])
                   /\ \A q \in loginAttempts' : q.email = e => q = r]_vars

\* C18 witness: an email without account was answered with the lockout
\* rejection after five failures inside the window.
W18_UnknownEmailLocked ==
  /\ last.op = "login" /\ last.result = "locked"
  /\ findByEmail(last.who) = None
  /\ Len(fails[last.who]) = MAX_LOGIN_ATTEMPTS
  /\ \E r \in RowsOf(last.who) : r.attempts = MAX_LOGIN_ATTEMPTS /\ r.lockedUntil # Null

\* C27 (as claimed): a counter that has reached MAX_LOGIN_ATTEMPTS failures
\* within the attempt window is locked by the operation that recorded the
\* last of them: in every state, attempts >= 5 with the last attempt inside
\* the window implies that lockedUntil is set.
C27_LockSetByMaxthFailure ==
  \A r \in loginAttempts :
    (r.attempts >= MAX_LOGIN_ATTEMPTS /\ r.lastAttemptAt >= now - ATTEMPT_WINDOW_MINUTES)
      => r.lockedUntil # Null

----------------------------------------------------------------------------
(* Access-token validation: passport-jwt, then JwtStrategy.validate *)

isTokenRevoked(tok) == \E r \in revokedTokens : r.token = tok

jwtStrategyValidate(tok) ==
  /\ tok.sub # None
  /\ ~isTokenRevoked(tok)

\* JwtAuthGuard: signature and exp are checked first, then validate()
Authenticated(tok) == jwtVerify(tok, now) /\ jwtStrategyValidate(tok)

Unauthorized(op, tok) ==
  /\ last' = Call(op, tok.sub, "unauthorized", NoToken, 0, tok)
  /\ UNCHANGED <<now, users, loginAttempts, refreshTokens, revokedTokens, nextTok,
                 issued, procs, fails, lastLogin, consumed, tornDown, mfaFailed>>
  /\ UNCHANGED <<RecoveryVars, calls, client>>

----------------------------------------------------------------------------
(* AuthService.refreshAccessToken *)

\* faulty variant: the update writes the new expiry but not the new token
rotate_keepToken(newRefreshToken, t) == [expiresAt |-> RefreshExpiry(t)]

\* the data of the update: a new token and a new expiry
rotate(newRefreshToken, t) ==
  [token |-> newRefreshToken, expiresAt |-> RefreshExpiry(t)]

refreshTokenExpired(row, t) == row.expiresAt < t

RefreshRejected(refreshToken, result, rows) ==
  /\ refreshTokens' = rows
  /\ last' = Call("refresh", None, result, NoToken, 0, refreshToken)
  /\ UNCHANGED <<now, users, loginAttempts, revokedTokens, nextTok, issued,
                 procs, fails, lastLogin, consumed, tornDown, mfaFailed>>
  /\ UNCHANGED <<RecoveryVars, calls, client>>

RefreshAccessToken(refreshToken) ==
  LET found == {r \in refreshTokens : r.token = refreshToken} IN
  IF found = {} THEN RefreshRejected(refreshToken, "invalid", refreshTokens)
  ELSE
    LET tokenRecord == CHOOSE r \in found : TRUE
        newAccessToken == jwtSign(tokenRecord.userId, FALSE, now)
        newRefreshToken == generateRefreshToken
    IN
    IF refreshTokenExpired(tokenRecord, now)
      THEN RefreshRejected(refreshToken, "expired", refreshTokens \ {tokenRecord})
    ELSE IF tokenRecord.userId \notin DOMAIN users
      THEN RefreshRejected(refreshToken, "noUser", refreshTokens)
    ELSE
      /\ nextTok < MaxTokens
      /\ nextTok' = newRefreshToken
      /\ refreshTokens' = updateRow(refreshTokens, tokenRecord.id,
                                    rotate(newRefreshToken, now))
      /\ issued' = issued \cup {newAccessToken}
      /\ consumed' = consumed \cup {refreshToken}
      /\ last' = Call("refresh", tokenRecord.userId, "ok", newAccessToken,
                      newRefreshToken, refreshToken)
      /\ UNCHANGED <<now, users, loginAttempts, revokedTokens, procs, fails,
                     lastLogin, tornDown, mfaFailed>>
      /\ UNCHANGED <<RecoveryVars, calls, client>>

----------------------------------------------------------------------------
(* AuthController.logout -> AuthService.revokeToken *)

\* faulty variant: the sweep deletes the rows that have not expired
sweepRevokedTokens_unexpired(rows, t) == {r \in rows : r.expiresAt < t}

sweepRevokedTokens(rows, t) == {r \in rows : ~(r.expiresAt < t)}

RevokeToken(tok, userId) ==
  /\ revokedTokens' =
       sweepRevokedTokens(
         revokedTokens \cup {[token |-> tok, userId |-> userId, expiresAt |-> tok.exp]},
         now)
  /\ users' = [users EXCEPT ![userId].lastLogoutAt = now]
  /\ refreshTokens' = revokeAllRefreshTokens(refreshTokens, userId)
  /\ tornDown' = tornDown \cup {r.token : r \in {q \in refreshTokens : q.userId = userId}}
  /\ last' = Call("logout", userId, "ok", NoToken, 0, tok)
  /\ UNCHANGED <<now, loginAttempts, nextTok, issued, procs, fails, lastLogin,
                 consumed, mfaFailed>>
  /\ UNCHANGED <<RecoveryVars, calls, client>>

Logout(tok) ==
  IF ~Authenticated(tok) THEN Unauthorized("logout", tok)
  ELSE RevokeToken(tok, tok.sub)

----------------------------------------------------------------------------
(* AuthService.verifyMfa *)

\* faulty variant: the result of the verification is negated
totpVerify_negated(secret, totpCode) == totpCode # secret

\* speakeasy.totp.verify: the codes that the secret produces around now are
\* represented by the secret itself
totpVerify(secret, totpCode) == totpCode = secret

VerifyMfaRejected(mfaToken, result, failedCode) ==
  /\ mfaFailed' = IF failedCode THEN mfaFailed \cup {mfaToken} ELSE mfaFailed
  /\ last' = Call("verifyMfa", mfaToken.sub, result, NoToken, 0, mfaToken)
  /\ UNCHANGED <<now, users, loginAttempts, refreshTokens, revokedTokens, nextTok,
                 issued, procs, fails, lastLogin, consumed, tornDown>>
  /\ UNCHANGED <<RecoveryVars, calls, client>>

VerifyMfa(mfaToken, totpCode) ==
  IF ~jwtVerify(mfaToken, now) THEN VerifyMfaRejected(mfaToken, "invalidToken", FALSE)
  ELSE IF ~mfaToken.mfaPending THEN VerifyMfaRejected(mfaToken, "invalidToken", FALSE)
  ELSE IF mfaToken.sub \notin DOMAIN users
    THEN VerifyMfaRejected(mfaToken, "noUser", FALSE)
  ELSE
    LET user == users[mfaToken.sub]
        accessToken == jwtSign(mfaToken.sub, FALSE, now)
        refreshToken == generateRefreshToken
        row == [id |-> refreshToken, token |-> refreshToken, userId |-> mfaToken.sub,
                expiresAt |-> RefreshExpiry(now)]
    IN
    IF ~user.mfaEnabled \/ user.mfaSecret = None
      THEN VerifyMfaRejected(mfaToken, "mfaNotConfigured", FALSE)
    ELSE IF ~totpVerify(user.mfaSecret, totpCode)
      THEN VerifyMfaRejected(mfaToken, "invalidCode", TRUE)
    ELSE
      /\ nextTok < MaxTokens
      /\ nextTok' = refreshToken
      /\ refreshTokens' =
           cleanExpiredRefreshTokens(refreshTokens \cup {row}, mfaToken.sub, now)
      /\ issued' = issued \cup {accessToken}
      /\ last' = Call("verifyMfa", mfaToken.sub, "ok", accessToken, refreshToken,
                      mfaToken)
      /\ UNCHANGED <<now, users, loginAttempts, revokedTokens, procs, fails,
                     lastLogin, consumed, tornDown, mfaFailed>>
      /\ UNCHANGED <<RecoveryVars, calls, client>>

----------------------------------------------------------------------------
(* AuthController.enableMfa / disableMfa behind JwtAuthGuard *)

MfaRejected(op, tok, result) ==
  /\ last' = Call(op, tok.sub, result, NoToken, 0, tok)
  /\ UNCHANGED <<now, users, loginAttempts, refreshTokens, revokedTokens, nextTok,
                 issued, procs, fails, lastLogin, consumed, tornDown, mfaFailed>>
  /\ UNCHANGED <<RecoveryVars, calls, client>>

MfaUpdated(op, tok, enabled, secret) ==
  /\ users' = [users EXCEPT ![tok.sub].mfaEnabled = enabled,
                            ![tok.sub].mfaSecret = secret]
  /\ last' = Call(op, tok.sub, "ok", NoToken, 0, tok)
  /\ UNCHANGED <<now, loginAttempts, refreshTokens, revokedTokens, nextTok,
                 issued, procs, fails, lastLogin, consumed, tornDown, mfaFailed>>
  /\ UNCHANGED <<RecoveryVars, calls, client>>

\* faulty variant: the candidate secret is stored before the code is verified
EnableMfa_storeFirst(tok, totpCode, secret) ==
  IF ~Authenticated(tok) THEN Unauthorized("enableMfa", tok)
  ELSE IF users[tok.sub].mfaEnabled THEN MfaRejected("enableMfa", tok, "alreadyEnabled")
  ELSE MfaUpdated("enableMfa", tok, totpVerify(secret, totpCode), secret)

EnableMfa(tok, totpCode, secret) ==
  IF ~Authenticated(tok) THEN Unauthorized("enableMfa", tok)
  ELSE IF users[tok.sub].mfaEnabled THEN MfaRejected("enableMfa", tok, "alreadyEnabled")
  ELSE IF ~totpVerify(secret, totpCode) THEN MfaRejected("enableMfa", tok, "invalidCode")
  ELSE MfaUpdated("enableMfa", tok, TRUE, secret)

\* faulty variant: the secret is erased but mfaEnabled stays set
DisableMfa_secretOnly(tok) ==
  IF ~Authenticated(tok) THEN Unauthorized("disableMfa", tok)
  ELSE IF ~users[tok.sub].mfaEnabled THEN MfaRejected("disableMfa", tok, "notEnabled")
  ELSE MfaUpdated("disableMfa", tok, TRUE, None)

DisableMfa(tok) ==
  IF ~Authenticated(tok) THEN Unauthorized("disableMfa", tok)
  ELSE IF ~users[tok.sub].mfaEnabled THEN MfaRejected("disableMfa", tok, "notEnabled")
  ELSE MfaUpdated("disableMfa", tok, FALSE, None)

----------------------------------------------------------------------------
(* Sessions: logins with the right password, refresh and logout *)

SessionSteps == {5, Week}

NextSession ==
  \/ \E d \in SessionSteps : Tick(d, MaxSessionTime)
  \/ \E u \in Users : Login(u, users[u].password)
  \/ \E rt \in 1..nextTok : RefreshAccessToken(rt)
  \/ \E tok \in issued : Logout(tok)

SpecSession == Init /\ [][NextSession]_vars

----------------------------------------------------------------------------
(* Second factor: one account enrols, logs in with TOTP, disables *)

MfaUsers == {"bob"}
MfaSteps == {5}

NextMfa ==
  \/ \E d \in MfaSteps : Tick(d, MaxSessionTime)
  \/ \E u \in MfaUsers : Login(u, users[u].password)
  \/ \E tok \in issued, c \in TotpCodes : VerifyMfa(tok, c)
  \/ \E tok \in issued, c \in TotpCodes, s \in Secrets : EnableMfa(tok, c, s)
  \/ \E tok \in issued : DisableMfa(tok)
  \/ \E tok \in issued : Logout(tok)

SpecMfa == Init /\ [][NextMfa]_vars

----------------------------------------------------------------------------
(* Claims about sessions *)

Stored(rt) == \E r \in refreshTokens : r.token = rt

Unexpired(rt) == \E r \in refreshTokens : r.token = rt /\ ~(r.expiresAt < now)

\* C4: refreshAccessToken(R) for a stored, unexpired R succeeds, returns a new
\* access token and a new refresh token R' # R, and replaces the row's token by
\* R' with expiry now + 7 days; a value that was rotated away is rejected ever
\* after and changes nothing.
C4_RefreshRotation ==
  [][\A rt \in 1..nextTok :
       RefreshAccessToken(rt) =>
         /\ Unexpired(rt) =>
              /\ last'.result = "ok"
              /\ last'.refresh # rt
              /\ last'.access \in issued' /\ ~last'.access.mfaPending
              /\ \E r \in refreshTokens :
                   /\ r.token = rt
                   /\ last'.access.sub = r.userId
                   /\ refreshTokens' = (refreshTokens \ {r}) \cup
                        {[r EXCEPT !.token = last'.refresh,
                                   !.expiresAt = now + REFRESH_TOKEN_DAYS * MinutesPerDay]}
              /\ \A r \in refreshTokens' : r.token # rt
         /\ rt \in consumed =>
              /\ last'.result = "invalid"
              /\ refreshTokens' = refreshTokens /\ issued' = issued]_vars

\* C4 witness: a refresh token was rotated and its replay was then rejected,
\* while the value that replaced it is stored.
W4_ReplayRejected ==
  /\ last.op = "refresh" /\ last.result = "invalid"
  /\ last.arg \in consumed
  /\ \E r \in refreshTokens : r.token \notin consumed /\ r.token > last.arg

\* C6 (as claimed): after a logout of user U at instant L, every access token
\* of U issued before L is rejected by access-token validation.
C6_WatermarkRejectsOlderTokens ==
  \A tok \in issued :
    (/\ ~tok.mfaPending
     /\ users[tok.sub].lastLogoutAt # Null
     /\ tok.iat < users[tok.sub].lastLogoutAt)
      => ~Authenticated(tok)

\* C7 (as claimed): an access token minted by a login made at or after the
\* user's logout is accepted by access-token validation until it expires or a
\* later call revokes it.
C7_FreshLoginAccepted ==
  (/\ last.op = "login" /\ last.result = "ok"
   /\ users[last.who].lastLogoutAt # Null
   /\ now < last.access.exp)
    => Authenticated(last.access)

\* C8: a completed logout of U leaves no refresh-token row of U and leaves the
\* rows of every other user as they were; a refresh token deleted by a logout
\* is rejected afterwards.
C8_LogoutTeardown ==
  [][/\ \A tok \in issued :
          (Logout(tok) /\ last'.result = "ok") =>
             /\ \A r \in refreshTokens' : r.userId # tok.sub
             /\ {r \in refreshTokens' : r.userId # tok.sub}
                  = {r \in refreshTokens : r.userId # tok.sub}
     /\ \A rt \in 1..nextTok :
          (RefreshAccessToken(rt) /\ rt \in tornDown) =>
             /\ last'.result = "invalid"
             /\ refreshTokens' = refreshTokens /\ issued' = issued]_vars

\* C8 witness: a refresh token deleted by a logout was presented and rejected
\* while another user's refresh token is still stored.
W8_TornDownRejected ==
  /\ last.op = "refresh" /\ last.result = "invalid"
  /\ last.arg \in tornDown
  /\ refreshTokens # {}

----------------------------------------------------------------------------
(* Claims about the second factor *)

AcceptedAfter(tok) ==
  /\ tok \in issued' /\ now' < tok.exp
  /\ tok.sub # None
  /\ \A r \in revokedTokens' : r.token # tok

StoredState == <<users, loginAttempts, refreshTokens, revokedTokens>>

ValidAssertion(tok) ==
  /\ tok \in issued /\ now < tok.exp /\ tok.mfaPending
  /\ users[tok.sub].mfaEnabled

\* C9 (as claimed): with MFA enabled, a login with the correct password creates
\* no refresh-token row and returns no credential that grants access; a
\* verifyMfa call with an invalid code mints nothing.
C9_MfaGate ==
  [][/\ \A u \in Users, p \in Passwords :
          (Login(u, p) /\ users[u].mfaEnabled) =>
             /\ refreshTokens' = refreshTokens
             /\ last'.refresh = 0
             /\ ~AcceptedAfter(last'.access)
     /\ \A tok \in issued, c \in TotpCodes :
          (VerifyMfa(tok, c) /\ ~(ValidAssertion(tok) /\ c = users[tok.sub].mfaSecret)) =>
             /\ last'.result # "ok"
             /\ last'.access = NoToken /\ last'.refresh = 0
             /\ refreshTokens' = refreshTokens /\ issued' = issued]_vars

\* C10: a rejected TOTP code changes no stored state, and the same pending
\* assertion, presented again before it expires with a code that is valid for
\* the persisted secret, is accepted and mints an access and a refresh token.
C10_AssertionSurvivesBadCode ==
  [][\A tok \in issued, c \in TotpCodes :
       VerifyMfa(tok, c) =>
         /\ last'.result = "invalidCode" =>
              /\ StoredState' = StoredState
              /\ issued' = issued
         /\ (tok \in mfaFailed /\ ValidAssertion(tok) /\ c = users[tok.sub].mfaSecret) =>
              /\ last'.result = "ok"
              /\ last'.access \in issued' /\ ~last'.access.mfaPending
              /\ \E r \in refreshTokens' :
                   r.token = last'.refresh /\ r.userId = tok.sub /\ ~Stored(r.token)]_vars

\* C10 witness: a pending assertion that had a code rejected was accepted later
\* with a valid code.
W10_AcceptedAfterBadCode ==
  /\ last.op = "verifyMfa" /\ last.result = "ok"
  /\ last.arg \in mfaFailed

\* C11 (as claimed): once verifyMfa succeeded for a pending assertion, every
\* later verifyMfa that presents the same assertion is rejected, even with a
\* valid TOTP code and before the assertion expires.
C11_AssertionConsumedOnSuccess ==
  [][\A tok \in issued, c \in TotpCodes :
       (/\ VerifyMfa(tok, c)
        /\ last.op = "verifyMfa" /\ last.result = "ok" /\ last.arg = tok)
         => last'.result # "ok"]_vars

----------------------------------------------------------------------------
(* The notifier and the recovery tokens *)

\* generateResetToken(), generateVerificationToken(): 32 random bytes
generateResetToken == nextTok + 1
generateVerificationToken == nextTok + 1

\* resendService.sendRecoveryEmail / sendVerificationEmail: the call is logged
\* with its outcome
Notify(kind, to, token, outcome) ==
  mails \cup {[kind |-> kind, to |-> to, token |-> token, outcome |-> outcome]}

\* sendRecoveryEmail ignores the error field of the response: only a throw fails
sendRecoveryEmailThrows(outcome) == outcome = "throws"

\* sendVerificationEmail logs the error field of the response and returns
sendVerificationEmailThrows(outcome) == outcome = "throws"

\* the logger lines of requestPasswordReset and sendRecoveryEmail behind
\* process.env.NODE_ENV !== 'production': written when the send did not throw
logRecovery(token, outcome, production) ==
  IF production \/ sendRecoveryEmailThrows(outcome) THEN {} ELSE {token}

\* the logger lines of sendVerificationEmail behind the same test: written in
\* the try block and in the catch block alike
logVerification(token, outcome, production) ==
  IF production THEN {} ELSE {token}

Issue(fate, token, kind, owner) ==
  (token :> [kind |-> kind, owner |-> owner, fate |-> "live"]) @@ fate

Retire(fate, tokens, how) ==
  [t \in DOMAIN fate |->
     IF t \in tokens /\ fate[t].fate = "live" THEN [fate[t] EXCEPT !.fate = how]
     ELSE fate[t]]

\* /^(?=.*[a-z])(?=.*[A-Z])(?=.*\d)(?=.*[@$!%*?&#])/ and the length test
passwordRegexTest(newPassword) ==
  LET shape == PasswordShape[newPassword] IN
  shape.lower /\ shape.upper /\ shape.digit /\ shape.symbol

\* faulty variant: the length test is missing
passwordTooShort_never(newPassword) == FALSE

passwordTooShort(newPassword) == PasswordShape[newPassword].length < 8

----------------------------------------------------------------------------
(* PasswordResetService.checkIpRateLimit *)

RateLimitWindow == RATE_LIMIT_WINDOW_HOURS * MinutesPerHour

\* faulty variant: attempts > MAX_ATTEMPTS_PER_HOUR_BY_IP instead of >=
checkIpRateLimit_gt(rows, ipAddress, t) ==
  LET oneHourAgo == t - RateLimitWindow
      mine == {r \in rows : r.ipAddress = ipAddress}
      recent == {r \in mine : r.lastAttemptAt >= oneHourAgo}
  IN
  IF recent # {}
    THEN LET ipAttempt == findFirstDesc(recent) IN
         IF ipAttempt.attempts > MAX_ATTEMPTS_PER_HOUR_BY_IP
           THEN [rejected |-> TRUE, rows |-> rows]
           ELSE [rejected |-> FALSE,
                 rows |-> updateRow(rows, ipAttempt.id,
                            [attempts |-> ipAttempt.attempts + 1, lastAttemptAt |-> t])]
  ELSE IF mine # {}
    THEN LET oldIpAttempt == findFirstDesc(mine) IN
         [rejected |-> FALSE,
          rows |-> updateRow(rows, oldIpAttempt.id, [attempts |-> 1, lastAttemptAt |-> t])]
  ELSE [rejected |-> FALSE,
        rows |-> rows \cup {[id |-> NewId(rows), ipAddress |-> ipAddress,
                             attempts |-> 1, lastAttemptAt |-> t]}]

\* Returns [rejected, rows]: whether the call throws, and the table afterwards.
checkIpRateLimit(rows, ipAddress, t) ==
  LET oneHourAgo == t - RateLimitWindow
      mine == {r \in rows : r.ipAddress = ipAddress}
      recent == {r \in mine : r.lastAttemptAt >= oneHourAgo}
  IN
  IF recent # {}
    THEN LET ipAttempt == findFirstDesc(recent) IN
         IF ipAttempt.attempts >= MAX_ATTEMPTS_PER_HOUR_BY_IP
           THEN [rejected |-> TRUE, rows |-> rows]
           ELSE [rejected |-> FALSE,
                 rows |-> updateRow(rows, ipAttempt.id,
                            [attempts |-> ipAttempt.attempts + 1, lastAttemptAt |-> t])]
  ELSE IF mine # {}
    THEN LET oldIpAttempt == findFirstDesc(mine) IN
         [rejected |-> FALSE,
          rows |-> updateRow(rows, oldIpAttempt.id, [attempts |-> 1, lastAttemptAt |-> t])]
  ELSE [rejected |-> FALSE,
        rows |-> rows \cup {[id |-> NewId(rows), ipAddress |-> ipAddress,
                             attempts |-> 1, lastAttemptAt |-> t]}]

----------------------------------------------------------------------------
(* PasswordResetService.requestPasswordReset *)

\* faulty variant: attempts > MAX_ATTEMPTS_PER_HOUR instead of >=
checkEmailRateLimit_gt(rows, email, t) ==
  LET oneHourAgo == t - RateLimitWindow
      found == {r \in rows : r.email = email}
  IN
  IF found = {} THEN [rejected |-> FALSE, rows |-> rows]
  ELSE
    LET existingReset == CHOOSE r \in found : TRUE IN
    IF existingReset.lastAttemptAt > oneHourAgo
      THEN IF existingReset.attempts > MAX_ATTEMPTS_PER_HOUR
             THEN [rejected |-> TRUE, rows |-> rows]
             ELSE [rejected |-> FALSE,
                   rows |-> (rows \ {existingReset}) \cup
                     {[existingReset EXCEPT !.attempts = existingReset.attempts + 1,
                                            !.lastAttemptAt = t]}]
      ELSE [rejected |-> FALSE,
            rows |-> (rows \ {existingReset}) \cup
              {[existingReset EXCEPT !.attempts = 1, !.lastAttemptAt = t]}]

\* Returns [rejected, rows]: the per-email limit on the password_resets row.
checkEmailRateLimit(rows, email, t) ==
  LET oneHourAgo == t - RateLimitWindow
      found == {r \in rows : r.email = email}
  IN
  IF found = {} THEN [rejected |-> FALSE, rows |-> rows]
  ELSE
    LET existingReset == CHOOSE r \in found : TRUE IN
    IF existingReset.lastAttemptAt > oneHourAgo
      THEN IF existingReset.attempts >= MAX_ATTEMPTS_PER_HOUR
             THEN [rejected |-> TRUE, rows |-> rows]
             ELSE [rejected |-> FALSE,
                   rows |-> (rows \ {existingReset}) \cup
                     {[existingReset EXCEPT !.attempts = existingReset.attempts + 1,
                                            !.lastAttemptAt = t]}]
      ELSE [rejected |-> FALSE,
            rows |-> (rows \ {existingReset}) \cup
              {[existingReset EXCEPT !.attempts = 1, !.lastAttemptAt = t]}]

\* faulty variant: a new row is created although the email has one
storeResetToken_create(rows, email, token, t) ==
  rows \cup {[email |-> email, token |-> token,
               expiresAt |-> t + TOKEN_EXPIRATION_MINUTES,
               attempts |-> 1, lastAttemptAt |-> t]}

\* the update or create that stores the new token
storeResetToken(rows, email, token, t) ==
  LET found == {r \in rows : r.email = email}
      expiresAt == t + TOKEN_EXPIRATION_MINUTES
  IN
  IF found # {}
    THEN {IF r.email = email THEN [r EXCEPT !.token = token, !.expiresAt = expiresAt]
          ELSE r : r \in rows}
    ELSE rows \cup {[email |-> email, token |-> token, expiresAt |-> expiresAt,
                     attempts |-> 1, lastAttemptAt |-> t]}

ResetRequestDone(email, ipAddress, result, ipRows, resetRows) ==
  /\ passwordResetAttempts' = ipRows
  /\ passwordResets' = resetRows
  /\ last' = Call("requestPasswordReset", email, result, NoToken, 0, ipAddress)
  /\ UNCHANGED <<now, users, loginAttempts, refreshTokens, revokedTokens, nextTok,
                 issued, procs, fails, lastLogin, consumed, tornDown, mfaFailed,
                 emailVerifications, mails, tokenFate, calls, client>>

\* production: process.env.NODE_ENV = 'production', read at each logger call
RequestPasswordReset(email, ipAddress, outcome, production) ==
  LET ip == checkIpRateLimit(passwordResetAttempts, ipAddress, now)
      user == findByEmail(email)
      byEmail == checkEmailRateLimit(passwordResets, email, now)
      token == generateResetToken
      stored == storeResetToken(byEmail.rows, email, token, now)
      before == {r.token : r \in {q \in passwordResets : q.email = email}}
  IN
  IF ip.rejected
    THEN ResetRequestDone(email, ipAddress, "ipLimit", ip.rows, passwordResets)
  ELSE IF user = None
    THEN ResetRequestDone(email, ipAddress, "ok", ip.rows, passwordResets)
  ELSE IF byEmail.rejected
    THEN ResetRequestDone(email, ipAddress, "emailLimit", ip.rows, passwordResets)
  ELSE
    /\ nextTok < MaxResetTokens
    /\ nextTok' = token
    /\ passwordResetAttempts' = ip.rows
    /\ mails' = Notify("recovery", email, token, outcome)
    /\ IF sendRecoveryEmailThrows(outcome)
         THEN /\ passwordResets' = {r \in stored : r.email # email}
              /\ tokenFate' = Retire(Issue(Retire(tokenFate, before, "superseded"),
                                           token, "reset", email),
                                     {token}, "rolledBack")
              /\ last' = Exposing(Call("requestPasswordReset", email, "sendFailed",
                                       NoToken, 0, ipAddress),
                                  logRecovery(token, outcome, production), {})
         ELSE /\ passwordResets' = stored
              /\ tokenFate' = Issue(Retire(tokenFate, before, "superseded"),
                                    token, "reset", email)
              /\ last' = Exposing(Call("requestPasswordReset", email, "ok",
                                       NoToken, 0, ipAddress),
                                  logRecovery(token, outcome, production), {})
    /\ UNCHANGED <<now, users, loginAttempts, refreshTokens, revokedTokens,
                   issued, procs, fails, lastLogin, consumed, tornDown, mfaFailed,
                   emailVerifications, calls, client>>

----------------------------------------------------------------------------
(* PasswordResetService.verifyResetToken / resetPassword *)

resetTokenExpired(reset, t) == reset.expiresAt < t

\* faulty variant: the used token is not deleted
deleteResetToken_kept(rows, token) == rows

\* prisma.passwordReset.delete({where: {token}})
deleteResetToken(rows, token) == {r \in rows : r.token # token}

ResetTokenDone(op, token, who, result, rows, how) ==
  /\ passwordResets' = rows
  /\ tokenFate' = IF how = None THEN tokenFate ELSE Retire(tokenFate, {token}, how)
  /\ last' = Call(op, who, result, NoToken, 0, token)
  /\ UNCHANGED <<now, users, loginAttempts, refreshTokens, revokedTokens, nextTok,
                 issued, procs, fails, lastLogin, consumed, tornDown, mfaFailed,
                 passwordResetAttempts, emailVerifications, mails, calls, client>>

VerifyResetToken(token) ==
  LET found == {r \in passwordResets : r.token = token} IN
  IF found = {}
    THEN ResetTokenDone("verifyResetToken", token, None, "invalid", passwordResets, None)
  ELSE
    LET reset == CHOOSE r \in found : TRUE IN
    IF resetTokenExpired(reset, now)
      THEN ResetTokenDone("verifyResetToken", token, reset.email, "invalid",
                          deleteResetToken(passwordResets, token), "expired")
      ELSE ResetTokenDone("verifyResetToken", token, reset.email, "valid",
                          passwordResets, None)

\* faulty variant: a successful reset also deletes the user's refresh tokens
ResetPassword_revoking(token, newPassword) ==
  LET found == {r \in passwordResets : r.token = token} IN
  IF found = {}
    THEN ResetTokenDone("resetPassword", token, None, "notFound", passwordResets, None)
  ELSE
    LET reset == CHOOSE r \in found : TRUE
        email == reset.email
    IN
    IF resetTokenExpired(reset, now)
      THEN ResetTokenDone("resetPassword", token, email, "expired",
                          deleteResetToken(passwordResets, token), "expired")
    ELSE IF findByEmail(email) = None
      THEN ResetTokenDone("resetPassword", token, email, "noUser", passwordResets, None)
    ELSE IF passwordTooShort(newPassword)
      THEN ResetTokenDone("resetPassword", token, email, "tooShort", passwordResets, None)
    ELSE IF ~passwordRegexTest(newPassword)
      THEN ResetTokenDone("resetPassword", token, email, "tooSimple", passwordResets, None)
    ELSE
      /\ users' = [users EXCEPT ![email].password = newPassword]
      /\ passwordResets' = deleteResetToken(passwordResets, token)
      /\ refreshTokens' = revokeAllRefreshTokens(refreshTokens, email)
      /\ tokenFate' = Retire(tokenFate, {token}, "used")
      /\ last' = Call("resetPassword", email, "ok", NoToken, 0, token)
      /\ UNCHANGED <<now, loginAttempts, revokedTokens, nextTok,
                     issued, procs, fails, lastLogin, consumed, tornDown, mfaFailed,
                     passwordResetAttempts, emailVerifications, mails, calls, client>>

ResetPassword(token, newPassword) ==
  LET found == {r \in passwordResets : r.token = token} IN
  IF found = {}
    THEN ResetTokenDone("resetPassword", token, None, "notFound", passwordResets, None)
  ELSE
    LET reset == CHOOSE r \in found : TRUE
        email == reset.email
    IN
    IF resetTokenExpired(reset, now)
      THEN ResetTokenDone("resetPassword", token, email, "expired",
                          deleteResetToken(passwordResets, token), "expired")
    ELSE IF findByEmail(email) = None
      THEN ResetTokenDone("resetPassword", token, email, "noUser", passwordResets, None)
    ELSE IF passwordTooShort(newPassword)
      THEN ResetTokenDone("resetPassword", token, email, "tooShort", passwordResets, None)
    ELSE IF ~passwordRegexTest(newPassword)
      THEN ResetTokenDone("resetPassword", token, email, "tooSimple", passwordResets, None)
    ELSE
      /\ users' = [users EXCEPT ![email].password = newPassword]
      /\ passwordResets' = deleteResetToken(passwordResets, token)
      /\ tokenFate' = Retire(tokenFate, {token}, "used")
      /\ last' = Call("resetPassword", email, "ok", NoToken, 0, token)
      /\ UNCHANGED <<now, loginAttempts, refreshTokens, revokedTokens, nextTok,
                     issued, procs, fails, lastLogin, consumed, tornDown, mfaFailed,
                     passwordResetAttempts, emailVerifications, mails, calls, client>>

----------------------------------------------------------------------------
(* AuthService.register *)

VerificationExpiry(t) == t + VERIFICATION_EXPIRES_HOURS * MinutesPerHour

\* faulty variant: the account is created verified
createUser_verified(password) ==
  [emailVerified |-> TRUE, password |-> password,
   mfaEnabled |-> FALSE, mfaSecret |-> None, lastLogoutAt |-> Null]

\* usersService.create: the column emailVerified defaults to false
createUser(password) ==
  [emailVerified |-> FALSE, password |-> password,
   mfaEnabled |-> FALSE, mfaSecret |-> None, lastLogoutAt |-> Null]

RegisterRejected(email, result) ==
  /\ last' = Call("register", email, result, NoToken, 0, 0)
  /\ UNCHANGED <<now, users, loginAttempts, refreshTokens, revokedTokens, nextTok,
                 issued, procs, fails, lastLogin, consumed, tornDown, mfaFailed,
                 RecoveryVars, calls, client>>

\* production: process.env.NODE_ENV = 'production', read at each logger call
\* and when the send failed
Register(email, password, outcome, production) ==
  LET verificationToken == generateVerificationToken
      row == [id |-> verificationToken, userId |-> email, token |-> verificationToken,
              expiresAt |-> VerificationExpiry(now)]
  IN
  IF passwordTooShort(password) \/ ~passwordRegexTest(password)
    THEN RegisterRejected(email, "badRequest")
  ELSE IF findByEmail(email) # None THEN RegisterRejected(email, "conflict")
  ELSE
    /\ nextTok < MaxTokens
    /\ nextTok' = verificationToken
    /\ users' = (email :> createUser(password)) @@ users
    /\ mails' = Notify("verification", email, verificationToken, outcome)
    /\ IF sendVerificationEmailThrows(outcome)
         THEN /\ emailVerifications' = {r \in emailVerifications : r.userId # email}
              /\ tokenFate' = Retire(Issue(tokenFate, verificationToken, "verify", email),
                                     {verificationToken}, "rolledBack")
              /\ last' = IF production
                           THEN Call("register", email, "sendFailed", NoToken, 0, 0)
                           ELSE Exposing(Call("register", email, "ok", NoToken, 0,
                                              verificationToken),
                                         logVerification(verificationToken, outcome,
                                                         production),
                                         {verificationToken})
         ELSE /\ emailVerifications' = emailVerifications \cup {row}
              /\ tokenFate' = Issue(tokenFate, verificationToken, "verify", email)
              /\ last' = Exposing(Call("register", email, "ok", NoToken, 0, 0),
                                  logVerification(verificationToken, outcome,
                                                  production), {})
    /\ UNCHANGED <<now, loginAttempts, refreshTokens, revokedTokens, issued, procs,
                   fails, lastLogin, consumed, tornDown, mfaFailed,
                   passwordResets, passwordResetAttempts, calls, client>>

----------------------------------------------------------------------------
(* AuthService.verifyEmail / resendVerificationEmail *)

\* faulty variant: the comparison of the expiry test is reversed
verificationExpired_reversed(verification, t) == verification.expiresAt > t

verificationExpired(verification, t) == verification.expiresAt < t

\* faulty variant: the row of the token is not deleted
deleteVerification_kept(rows, id) == rows

\* prisma.emailVerification.delete({where: {id: verification.id}})
deleteVerification(rows, id) == {r \in rows : r.id # id}

VerificationDone(op, who, arg, result, rows, how) ==
  /\ emailVerifications' = rows
  /\ tokenFate' = IF how = None THEN tokenFate ELSE Retire(tokenFate, {arg}, how)
  /\ last' = Call(op, who, result, NoToken, 0, arg)
  /\ UNCHANGED <<now, users, loginAttempts, refreshTokens, revokedTokens, nextTok,
                 issued, procs, fails, lastLogin, consumed, tornDown, mfaFailed,
                 passwordResets, passwordResetAttempts, mails, calls, client>>

VerifyEmail(token) ==
  LET found == {r \in emailVerifications : r.token = token} IN
  IF found = {}
    THEN VerificationDone("verifyEmail", None, token, "invalid", emailVerifications, None)
  ELSE
    LET verification == CHOOSE r \in found : TRUE
        userId == verification.userId
        deleted == deleteVerification(emailVerifications, verification.id)
    IN
    IF verificationExpired(verification, now)
      THEN VerificationDone("verifyEmail", userId, token, "expired", deleted, "expired")
    ELSE IF userId \notin DOMAIN users
      THEN VerificationDone("verifyEmail", userId, token, "noUser", emailVerifications, None)
    ELSE IF users[userId].emailVerified
      THEN VerificationDone("verifyEmail", userId, token, "alreadyVerified", deleted,
                            "discarded")
    ELSE
      /\ users' = [users EXCEPT ![userId].emailVerified = TRUE]
      /\ emailVerifications' = deleted
      /\ tokenFate' = Retire(tokenFate, {token}, "used")
      /\ last' = Call("verifyEmail", userId, "ok", NoToken, 0, token)
      /\ UNCHANGED <<now, loginAttempts, refreshTokens, revokedTokens, nextTok,
                     issued, procs, fails, lastLogin, consumed, tornDown, mfaFailed,
                     passwordResets, passwordResetAttempts, mails, calls, client>>

ResendVerificationEmail(email, outcome, production) ==
  LET user == findByEmail(email)
      verificationToken == generateVerificationToken
      row == [id |-> verificationToken, userId |-> email, token |-> verificationToken,
              expiresAt |-> VerificationExpiry(now)]
      before == {r.token : r \in {q \in emailVerifications : q.userId = email}}
  IN
  IF user = None
    THEN VerificationDone("resendVerification", email, 0, "ok", emailVerifications, None)
  ELSE IF users[user].emailVerified
    THEN VerificationDone("resendVerification", email, 0, "alreadyVerified",
                          emailVerifications, None)
  ELSE
    /\ nextTok < MaxTokens
    /\ nextTok' = verificationToken
    /\ emailVerifications' = {r \in emailVerifications : r.userId # email} \cup {row}
    /\ tokenFate' = Issue(Retire(tokenFate, before, "superseded"),
                          verificationToken, "verify", email)
    /\ mails' = Notify("verification", email, verificationToken, outcome)
    /\ last' = Exposing(Call("resendVerification", email,
                             IF sendVerificationEmailThrows(outcome)
                               THEN "sendFailed" ELSE "ok",
                             NoToken, 0, 0),
                        logVerification(verificationToken, outcome, production), {})
    /\ UNCHANGED <<now, users, loginAttempts, refreshTokens, revokedTokens,
                   issued, procs, fails, lastLogin, consumed, tornDown, mfaFailed,
                   passwordResets, passwordResetAttempts, calls, client>>

----------------------------------------------------------------------------
(* Password reset: requests for a registered and an unregistered email *)

ResetEmails == {"ana", UnknownEmail}
ResetSteps == {30, 60}
ResetPasswords == {"pw2", "short", "plain"}
ResetOutcomes == {"sent", "throws"}

NextReset ==
  \/ \E d \in ResetSteps : Tick(d, MaxRecoveryTime)
  \/ \E e \in ResetEmails, ip \in Ips, o \in ResetOutcomes :
       RequestPasswordReset(e, ip, o, TRUE)
  \/ \E t \in 1..nextTok : VerifyResetToken(t)
  \/ \E t \in 1..nextTok, p \in ResetPasswords : ResetPassword(t, p)

SpecReset == Init /\ [][NextReset]_vars

----------------------------------------------------------------------------
(* Registration: a new account registers, verifies its email and logs in *)

NewEmails == {UnknownEmail}
VerificationSteps == {15}
RegisterPasswords == {"pw1", "plain"}

NextVerification ==
  \/ \E d \in VerificationSteps : Tick(d, MaxSessionTime)
  \/ \E e \in NewEmails, p \in RegisterPasswords, o \in SendOutcomes, production \in BOOLEAN :
       Register(e, p, o, production)
  \/ \E t \in 1..nextTok : VerifyEmail(t)
  \/ \E e \in NewEmails, o \in SendOutcomes : ResendVerificationEmail(e, o, TRUE)
  \/ \E e \in NewEmails, p \in Passwords : LoginOf(e, p)

SpecVerification == Init /\ [][NextVerification]_vars

----------------------------------------------------------------------------
(* Account recovery: both kinds of recovery token, issued, used, reissued *)

RecoverySteps == {60}
RegisteredEmails == {"ana"}
StrongPasswords == {"pw2"}

NextRecovery ==
  \/ \E d \in RecoverySteps : Tick(d, MaxRecoveryTime)
  \/ \E e \in RegisteredEmails, ip \in Ips, o \in SendOutcomes :
       nextTok < MaxTokens /\ RequestPasswordReset(e, ip, o, TRUE)
  \/ \E t \in 1..nextTok : VerifyResetToken(t)
  \/ \E t \in 1..nextTok, p \in StrongPasswords : ResetPassword(t, p)
  \/ \E e \in NewEmails, p \in RegisterPasswords, o \in SendOutcomes, production \in BOOLEAN :
       Register(e, p, o, production)
  \/ \E t \in 1..nextTok : VerifyEmail(t)
  \/ \E e \in NewEmails, o \in SendOutcomes : ResendVerificationEmail(e, o, TRUE)

SpecRecovery == Init /\ [][NextRecovery]_vars

----------------------------------------------------------------------------
(* Claims about the password reset *)

FateOf(t) == IF t \in DOMAIN tokenFate THEN tokenFate[t].fate ELSE None

\* C12: a successful resetPassword deletes the password_resets row of its
\* token, and every later resetPassword or verifyResetToken with that token is
\* rejected as not found / invalid and changes nothing.
C12_ResetTokenSingleUse ==
  [][\A t \in 1..nextTok :
       /\ \A p \in NewPasswords :
            ResetPassword(t, p) =>
              /\ last'.result = "ok" => \A r \in passwordResets' : r.token # t
              /\ FateOf(t) = "used" =>
                   /\ last'.result = "notFound"
                   /\ users' = users /\ passwordResets' = passwordResets
       /\ (VerifyResetToken(t) /\ FateOf(t) = "used") =>
            /\ last'.result = "invalid"
            /\ passwordResets' = passwordResets]_vars

\* C12 witness: a token that reset the password was presented again to
\* resetPassword, with a valid password, and was rejected as not found.
W12_UsedTokenRejected ==
  /\ last.op = "resetPassword" /\ last.result = "notFound"
  /\ FateOf(last.arg) = "used"
  /\ users["ana"].password = "pw2"

EmailLimitReached(e) ==
  \E r \in passwordResets :
    /\ r.email = e /\ r.attempts >= MAX_ATTEMPTS_PER_HOUR
    /\ r.lastAttemptAt > now - RateLimitWindow

IpLimitReached(ip) ==
  \E r \in passwordResetAttempts :
    /\ r.ipAddress = ip /\ r.attempts >= MAX_ATTEMPTS_PER_HOUR_BY_IP
    /\ r.lastAttemptAt >= now - RateLimitWindow

\* C13: a requestPasswordReset is rejected whenever the counter of its email has
\* reached 3 with its last request less than an hour ago, or the counter of its
\* address has reached 5 with its last request at most an hour ago, whatever the
\* other counter says; the rejected call stores no token and notifies nobody.
C13_DualRateLimit ==
  [][\A e \in Emails, ip \in Ips, o \in SendOutcomes, production \in BOOLEAN :
       (RequestPasswordReset(e, ip, o, production) /\ (EmailLimitReached(e) \/ IpLimitReached(ip)))
         => /\ last'.result \in {"emailLimit", "ipLimit"}
            /\ passwordResets' = passwordResets
            /\ nextTok' = nextTok
            /\ mails' = mails]_vars

\* C13 witness: a request was rejected by the limit of its email while the
\* counter of its address was under the limit of 5.
W13_EmailLimitAlone ==
  /\ last.op = "requestPasswordReset" /\ last.result = "emailLimit"
  /\ \A r \in passwordResetAttempts :
       r.ipAddress = last.arg => r.attempts < MAX_ATTEMPTS_PER_HOUR_BY_IP

\* C16 (as claimed): requestPasswordReset for an email that belongs to no
\* account returns success, creates no password_resets row and never calls the
\* notifier.
C16_UnknownEmailSucceeds ==
  [][\A e \in Emails, ip \in Ips, o \in SendOutcomes, production \in BOOLEAN :
       (RequestPasswordReset(e, ip, o, production) /\ findByEmail(e) = None)
         => /\ last'.result = "ok"
            /\ passwordResets' = passwordResets
            /\ mails' = mails]_vars

\* C16 (amended): requestPasswordReset for an email that belongs to no account,
\* from an address whose counter has not reached the limit, returns success,
\* creates no password_resets row and never calls the notifier; from an
\* address at its limit it is rejected like any other request, and in both
\* cases no row is created and nobody is notified.
C16_UnknownEmailSucceedsUnderIpLimit ==
  [][\A e \in Emails, ip \in Ips, o \in SendOutcomes, production \in BOOLEAN :
       (RequestPasswordReset(e, ip, o, production) /\ findByEmail(e) = None)
         => /\ last'.result = (IF IpLimitReached(ip) THEN "ipLimit" ELSE "ok")
            /\ passwordResets' = passwordResets
            /\ nextTok' = nextTok
            /\ mails' = mails]_vars

\* C16 witness: a request for an unregistered email returned success and left
\* no row and no mail behind, although requests had been made before.
W16_UnknownEmailSilent ==
  /\ last.op = "requestPasswordReset" /\ last.result = "ok"
  /\ last.who \notin DOMAIN users
  /\ \A r \in passwordResets : r.email # last.who
  /\ \A m \in mails : m.to # last.who
  /\ \E r \in passwordResetAttempts : r.attempts >= 2

----------------------------------------------------------------------------
(* Claims about recovery tokens of both kinds *)

OneRowPerOwner ==
  /\ \A r \in passwordResets, q \in passwordResets : r.email = q.email => r = q
  /\ \A r \in emailVerifications, q \in emailVerifications :
       r.userId = q.userId => r = q

\* C14: there is at most one password_resets row per email and at most one
\* email_verifications row per user, and a token that was replaced by a newer
\* one of the same owner is accepted by no later resetPassword,
\* verifyResetToken or verifyEmail.
C14_OneLiveTokenPerOwner ==
  /\ []OneRowPerOwner
  /\ [][\A t \in 1..nextTok :
          FateOf(t) = "superseded" =>
            /\ \A p \in NewPasswords :
                 ResetPassword(t, p) => (last'.result = "notFound" /\ users' = users)
            /\ VerifyResetToken(t) => last'.result = "invalid"
            /\ VerifyEmail(t) => (last'.result = "invalid" /\ users' = users)]_vars

\* C14 witness: the owner of a replaced token holds a newer one, and the
\* replaced one was presented and rejected.
W14_SupersededRejected ==
  /\ last.op \in {"resetPassword", "verifyEmail"}
  /\ last.result \in {"notFound", "invalid"}
  /\ FateOf(last.arg) = "superseded"
  /\ \E t \in DOMAIN tokenFate :
       /\ tokenFate[t].owner = tokenFate[last.arg].owner
       /\ tokenFate[t].kind = tokenFate[last.arg].kind
       /\ tokenFate[t].fate = "live"

\* C15 (as claimed): when a call of requestPasswordReset, register or
\* resendVerificationEmail fails to send its notification, the token row the
\* call created is gone when it returns and the caller is told of the failure.
C15_NotifierFailureRollsBack ==
  [][\A m \in mails' \ mails :
       m.outcome # "sent" =>
         /\ \A r \in passwordResets' : r.token # m.token
         /\ \A r \in emailVerifications' : r.token # m.token
         /\ last'.result = "sendFailed"]_vars

----------------------------------------------------------------------------
(* Claims about registration and the login boundary *)

\* C17 (as claimed): a login that is rejected without being locked out gets
\* the same neutral rejection whether the email is unknown, the password wrong
\* or the email not verified (the results "invalid" and "unverified" stand for
\* the two messages the code sends), and signs no token.
C17_GenericLoginError ==
  [][\A e \in Emails, p \in Passwords :
       (Login(e, p) /\ last'.result \notin (Granted \cup {"locked"}))
         => /\ last'.result = "invalid"
            /\ issued' = issued /\ refreshTokens' = refreshTokens]_vars

VerifiedBy(e) ==
  \E t \in DOMAIN tokenFate :
    tokenFate[t] = [kind |-> "verify", owner |-> e, fate |-> "used"]

LockedOut(e) == Locked(e) \/ CountedInWindow(e) >= MAX_LOGIN_ATTEMPTS

RegisterGate ==
  \A e \in Emails, p \in NewPasswords, o \in SendOutcomes, production \in BOOLEAN :
    (Register(e, p, o, production) /\ e \in DOMAIN users' /\ e \notin DOMAIN users) =>
      /\ ~users'[e].emailVerified
      /\ last'.access = NoToken /\ last'.refresh = 0
      /\ issued' = issued /\ refreshTokens' = refreshTokens

UnverifiedGate ==
  \A e \in Emails, p \in Passwords :
    (Login(e, p) /\ e \in DOMAIN users /\ ~users[e].emailVerified) =>
      /\ last'.result \notin Granted
      /\ last'.access = NoToken /\ last'.refresh = 0
      /\ issued' = issued /\ refreshTokens' = refreshTokens

----------------------------------------------------------------------------
(* Two refreshAccessToken calls in flight: every await is a step *)

RaceVars == <<now, users, loginAttempts, revokedTokens, fails, lastLogin,
              tornDown, mfaFailed, RecoveryVars, calls, client>>

\* const tokenRecord = await prisma.refreshToken.findUnique({where: {token}})
RefreshFind(p, refreshToken) ==
  LET found == {r \in refreshTokens : r.token = refreshToken} IN
  /\ procs[p].pc = "idle"
  /\ procs' = [procs EXCEPT ![p] =
       IF found = {}
         THEN [Idle EXCEPT !.pc = "done", !.refreshToken = refreshToken,
                           !.result = "invalid"]
         ELSE [Idle EXCEPT !.pc = "found", !.refreshToken = refreshToken,
                           !.tokenRecord = CHOOSE r \in found : TRUE]]
  /\ UNCHANGED <<refreshTokens, nextTok, issued, consumed, last>>
  /\ UNCHANGED RaceVars

\* the expiry test, prisma.refreshToken.delete on expiry, prisma.user.findUnique
RefreshCheck(p) ==
  LET tokenRecord == procs[p].tokenRecord IN
  /\ procs[p].pc = "found"
  /\ IF refreshTokenExpired(tokenRecord, now)
       THEN /\ refreshTokens' = {r \in refreshTokens : r.id # tokenRecord.id}
            /\ procs' = [procs EXCEPT ![p].pc = "done", ![p].result = "expired"]
       ELSE /\ refreshTokens' = refreshTokens
            /\ procs' = [procs EXCEPT ![p].pc = "update"]
  /\ UNCHANGED <<nextTok, issued, consumed, last>>
  /\ UNCHANGED RaceVars

\* faulty variant: the update creates the row when it is gone (an upsert)
RefreshUpdate_upsert(p) ==
  LET tokenRecord == procs[p].tokenRecord
      newAccessToken == jwtSign(tokenRecord.userId, FALSE, now)
      newRefreshToken == generateRefreshToken
  IN
  /\ procs[p].pc = "update"
  /\ nextTok < MaxTokens
  /\ nextTok' = newRefreshToken
  /\ refreshTokens' =
       {r \in refreshTokens : r.id # tokenRecord.id}
         \cup {[id |-> tokenRecord.id, token |-> newRefreshToken,
                userId |-> tokenRecord.userId, expiresAt |-> RefreshExpiry(now)]}
  /\ issued' = issued \cup {newAccessToken}
  /\ consumed' = consumed \cup {procs[p].refreshToken}
  /\ procs' = [procs EXCEPT ![p].pc = "done", ![p].result = "ok",
                            ![p].refresh = newRefreshToken]
  /\ UNCHANGED last
  /\ UNCHANGED RaceVars

\* sign, generate, await prisma.refreshToken.update({where: {id: tokenRecord.id}})
RefreshUpdate(p) ==
  LET tokenRecord == procs[p].tokenRecord
      newAccessToken == jwtSign(tokenRecord.userId, FALSE, now)
      newRefreshToken == generateRefreshToken
  IN
  /\ procs[p].pc = "update"
  /\ nextTok < MaxTokens
  /\ nextTok' = newRefreshToken
  /\ IF \E r \in refreshTokens : r.id = tokenRecord.id
       THEN /\ refreshTokens' = updateRow(refreshTokens, tokenRecord.id,
                                          rotate(newRefreshToken, now))
            /\ issued' = issued \cup {newAccessToken}
            /\ consumed' = consumed \cup {procs[p].refreshToken}
            /\ procs' = [procs EXCEPT ![p].pc = "done", ![p].result = "ok",
                                      ![p].refresh = newRefreshToken]
       ELSE /\ UNCHANGED <<refreshTokens, issued, consumed>>
            /\ procs' = [procs EXCEPT ![p].pc = "done", ![p].result = "error"]
  /\ UNCHANGED last
  /\ UNCHANGED RaceVars

\* the call returns or throws
RefreshReturn(p) ==
  /\ procs[p].pc = "done"
  /\ last' = Call("refresh", None, procs[p].result, NoToken, procs[p].refresh,
                  procs[p].refreshToken)
  /\ procs' = [procs EXCEPT ![p] = Idle]
  /\ UNCHANGED <<refreshTokens, nextTok, issued, consumed>>
  /\ UNCHANGED RaceVars

RaceUsers == {"ana"}

NextRace ==
  \/ \E d \in SessionSteps : Tick(d, MaxSessionTime)
  \/ \E u \in RaceUsers : Login(u, users[u].password)
  \/ \E p \in Procs, rt \in 1..nextTok : RefreshFind(p, rt)
  \/ \E p \in Procs : RefreshCheck(p)
  \/ \E p \in Procs : RefreshUpdate(p)
  \/ \E p \in Procs : RefreshReturn(p)

SpecRace == Init /\ [][NextRace]_vars

\* C5 (as claimed): of two concurrent refreshAccessToken calls that present the
\* same refresh-token value, at most one succeeds and returns tokens.
C5_AtMostOneRefreshSucceeds ==
  \A p \in Procs, q \in Procs :
    (/\ p # q
     /\ procs[p].pc = "done" /\ procs[q].pc = "done"
     /\ procs[p].refreshToken = procs[q].refreshToken)
      => ~(procs[p].result = "ok" /\ procs[q].result = "ok")

----------------------------------------------------------------------------
(* Two failing logins in flight: every await of recordFailedLoginAttempt is *)
(* a step                                                                   *)

CountVars == <<now, users, refreshTokens, revokedTokens, nextTok, issued, procs,
               lastLogin, consumed, tornDown, mfaFailed, RecoveryVars,
               client>>

\* await checkBruteForceProtection(email); the user lookup or the password
\* comparison then fails
FailedLoginCheck(p, email) ==
  LET chk == checkBruteForceProtection(loginAttempts, email, now) IN
  /\ calls[p].pc = "idle"
  /\ loginAttempts' = chk.rows
  /\ IF chk.locked
       THEN /\ calls' = calls
            /\ last' = Call("login", email, "locked", NoToken, 0, p)
       ELSE /\ calls' = [calls EXCEPT ![p] = [NoCall EXCEPT !.pc = "find", !.email = email]]
            /\ last' = last
  /\ UNCHANGED fails
  /\ UNCHANGED CountVars

\* const existingAttempt = await prisma.loginAttempt.findFirst({where: {email,
\* lastAttemptAt: {gte: attemptWindow}}})
RecordFind(p) ==
  LET email == calls[p].email
      recent == {r \in loginAttempts :
                   r.email = email /\ r.lastAttemptAt >= now - ATTEMPT_WINDOW_MINUTES}
  IN
  /\ calls[p].pc = "find"
  /\ calls' = [calls EXCEPT ![p] =
       IF recent # {}
         THEN [@ EXCEPT !.pc = "increment", !.read = findFirstDesc(recent).attempts,
                        !.id = findFirstDesc(recent).id]
         ELSE [@ EXCEPT !.pc = "findOld"]]
  /\ UNCHANGED <<loginAttempts, fails, last>>
  /\ UNCHANGED CountVars

\* const oldAttempt = await prisma.loginAttempt.findFirst({where: {email}})
RecordFindOld(p) ==
  LET mine == {r \in loginAttempts : r.email = calls[p].email} IN
  /\ calls[p].pc = "findOld"
  /\ calls' = [calls EXCEPT ![p] =
       IF mine # {}
         THEN [@ EXCEPT !.pc = "reset", !.id = findFirstDesc(mine).id]
         ELSE [@ EXCEPT !.pc = "create"]]
  /\ UNCHANGED <<loginAttempts, fails, last>>
  /\ UNCHANGED CountVars

\* await prisma.loginAttempt.update / create, then login throws
RecordWrite(p) ==
  LET email == calls[p].email IN
  /\ calls[p].pc \in {"increment", "reset", "create"}
  /\ loginAttempts' =
       IF calls[p].pc = "increment"
         THEN updateRow(loginAttempts, calls[p].id,
                        [attempts |-> calls[p].read + 1, lastAttemptAt |-> now])
       ELSE IF calls[p].pc = "reset"
         THEN updateRow(loginAttempts, calls[p].id,
                        [attempts |-> 1, lastAttemptAt |-> now, lockedUntil |-> Null])
       ELSE loginAttempts \cup {[id |-> NewId(loginAttempts), email |-> email,
                                 attempts |-> 1, lastAttemptAt |-> now,
                                 lockedUntil |-> Null]}
  /\ calls' = [calls EXCEPT ![p] = NoCall]
  /\ fails' = [fails EXCEPT ![email] = Remember(@, now)]
  /\ last' = Call("login", email, "invalid", NoToken, 0, p)
  /\ UNCHANGED CountVars

CountEmails == {UnknownEmail}
CountSteps == {15}

NextCount ==
  \/ \E d \in CountSteps : Tick(d, MaxSessionTime)
  \/ \E p \in Procs, e \in CountEmails : FailedLoginCheck(p, e)
  \/ \E p \in Procs : RecordFind(p)
  \/ \E p \in Procs : RecordFindOld(p)
  \/ \E p \in Procs : RecordWrite(p)

SpecCount == Init /\ [][NextCount]_vars

\* C19 (as claimed): when the failed logins of an email that ran concurrently
\* within one window have all returned, the stored counter of the email has
\* grown by one for each of them: it is not smaller than the number of failed
\* logins recorded in the window.
C19_NoLostCounterUpdate ==
  (\A p \in Procs : calls[p].pc = "idle")
    => \A e \in Emails : Attempts(loginAttempts, e) >= Len(fails[e])

----------------------------------------------------------------------------
(* Expiry: one account logs in and asks for a reset, another registers, and  *)
(* the clock passes the lifetimes of the three kinds of token                *)

ExpiryUsers == {"ana"}
ExpirySteps == {MinutesPerDay, Week}

NextExpiry ==
  \/ \E d \in ExpirySteps : Tick(d, MinutesPerDay)
  \/ \E u \in ExpiryUsers : Login(u, users[u].password)
  \/ \E rt \in 1..nextTok : RefreshAccessToken(rt)
  \/ \E e \in ExpiryUsers, ip \in Ips :
       nextTok < MaxTokens /\ RequestPasswordReset(e, ip, "sent", TRUE)
  \/ \E t \in 1..nextTok : VerifyResetToken(t)
  \/ \E t \in 1..nextTok, p \in StrongPasswords : ResetPassword(t, p)
  \/ \E e \in NewEmails : Register(e, "pw1", "sent", TRUE)
  \/ \E t \in 1..nextTok : VerifyEmail(t)

SpecExpiry == Init /\ [][NextExpiry]_vars

ExpiredRefresh(t) == \E r \in refreshTokens : r.token = t /\ r.expiresAt < now
ExpiredReset(t) == \E r \in passwordResets : r.token = t /\ r.expiresAt < now
ExpiredVerification(t) == \E r \in emailVerifications : r.token = t /\ r.expiresAt < now

\* C21: a refresh, password-reset or email-verification token presented after
\* its expiresAt is rejected by refreshAccessToken, verifyResetToken,
\* resetPassword and verifyEmail; the rejecting call deletes the row of the
\* token and changes no account, with no sweep having run before.
C21_ExpiryFailsClosed ==
  [][\A t \in 1..nextTok :
       /\ (RefreshAccessToken(t) /\ ExpiredRefresh(t))
            => /\ last'.result = "expired"
               /\ \A r \in refreshTokens' : r.token # t
               /\ issued' = issued
       /\ (VerifyResetToken(t) /\ ExpiredReset(t))
            => /\ last'.result = "invalid"
               /\ \A r \in passwordResets' : r.token # t
       /\ (\E p \in NewPasswords : ResetPassword(t, p) /\ ExpiredReset(t))
            => /\ last'.result = "expired"
               /\ \A r \in passwordResets' : r.token # t
               /\ users' = users
       /\ (VerifyEmail(t) /\ ExpiredVerification(t))
            => /\ last'.result = "expired"
               /\ \A r \in emailVerifications' : r.token # t
               /\ users' = users]_vars

\* the three kinds of token have each been presented after their expiry
W21_AllThreeExpired ==
  /\ last.op = "refresh" /\ last.result = "expired"
  /\ \E t \in DOMAIN tokenFate : tokenFate[t].kind = "reset" /\ tokenFate[t].fate = "expired"
  /\ \E t \in DOMAIN tokenFate : tokenFate[t].kind = "verify" /\ tokenFate[t].fate = "expired"

----------------------------------------------------------------------------
(* AuthController.generateMfaSecret behind JwtAuthGuard *)

\* speakeasy.generateSecret: the secret is the result of the call, nothing is
\* stored
GenerateMfaSecret(tok, secret) ==
  IF ~Authenticated(tok) THEN Unauthorized("generateMfaSecret", tok)
  ELSE IF users[tok.sub].mfaEnabled
    THEN MfaRejected("generateMfaSecret", tok, "alreadyEnabled")
  ELSE
    /\ last' = Call("generateMfaSecret", tok.sub, secret, NoToken, 0, tok)
    /\ UNCHANGED <<now, users, loginAttempts, refreshTokens, revokedTokens, nextTok,
                   issued, procs, fails, lastLogin, consumed, tornDown, mfaFailed>>
    /\ UNCHANGED <<RecoveryVars, calls, client>>

----------------------------------------------------------------------------
(* AuthService.enableMfa, one database call at a time: findUnique, then the  *)
(* checks, then update                                                       *)

EnrolVars == <<now, loginAttempts, refreshTokens, revokedTokens, nextTok, issued,
               procs, fails, lastLogin, consumed, tornDown, mfaFailed, RecoveryVars,
               client>>

\* const user = await prisma.user.findUnique(...); the checks of mfaEnabled
\* and of the TOTP code follow without another await
EnableMfaFind(p, tok, totpCode, secret) ==
  /\ calls[p].pc = "idle"
  /\ Authenticated(tok)
  /\ IF users[tok.sub].mfaEnabled
       THEN /\ last' = Call("enableMfa", tok.sub, "alreadyEnabled", NoToken, 0, tok)
            /\ calls' = calls
       ELSE IF ~totpVerify(secret, totpCode)
       THEN /\ last' = Call("enableMfa", tok.sub, "invalidCode", NoToken, 0, tok)
            /\ calls' = calls
       ELSE /\ last' = last
            /\ calls' = [calls EXCEPT ![p] =
                           [NoCall EXCEPT !.pc = "update", !.email = tok.sub,
                                          !.secret = secret]]
  /\ UNCHANGED users
  /\ UNCHANGED EnrolVars

\* faulty variant: the update sets mfaEnabled and leaves the secret unwritten
EnableMfaUpdate_flagOnly(p) ==
  /\ calls[p].pc = "update"
  /\ users' = [users EXCEPT ![calls[p].email].mfaEnabled = TRUE]
  /\ calls' = [calls EXCEPT ![p] = NoCall]
  /\ last' = Call("enableMfa", calls[p].email, "ok", NoToken, 0, NoToken)
  /\ UNCHANGED EnrolVars

\* await prisma.user.update({where: {id: userId}, data: {mfaEnabled: true,
\* mfaSecret: secret}})
EnableMfaUpdate(p) ==
  /\ calls[p].pc = "update"
  /\ users' = [users EXCEPT ![calls[p].email].mfaEnabled = TRUE,
                            ![calls[p].email].mfaSecret = calls[p].secret]
  /\ calls' = [calls EXCEPT ![p] = NoCall]
  /\ last' = Call("enableMfa", calls[p].email, "ok", NoToken, 0, NoToken)
  /\ UNCHANGED EnrolVars

----------------------------------------------------------------------------
(* Enrolment: one account logs in, asks for secrets, enables and disables    *)
(* the second factor, with calls running one at a time and overlapping       *)

EnrolUsers == {"bob"}

NextEnrol ==
  \/ \E u \in EnrolUsers : Login(u, users[u].password)
  \/ \E tok \in issued, s \in Secrets : GenerateMfaSecret(tok, s)
  \/ \E tok \in issued, c \in TotpCodes, s \in Secrets : EnableMfa(tok, c, s)
  \/ \E tok \in issued : DisableMfa(tok)
  \/ \E p \in Procs, tok \in issued, c \in TotpCodes, s \in Secrets :
       EnableMfaFind(p, tok, c, s)
  \/ \E p \in Procs : EnableMfaUpdate(p)

SpecEnrol == Init /\ [][NextEnrol]_vars

MfaState(u) == <<users[u].mfaEnabled, users[u].mfaSecret>>

\* C22: generateMfaSecret is rejected when mfaEnabled is true and otherwise
\* answers with a secret and writes nothing; enableMfa of an account without
\* MFA is rejected and writes nothing when the code does not belong to the
\* candidate secret, and with a code that belongs to it sets mfaEnabled = true
\* and mfaSecret = candidate in one step.
C22_NoPartialEnrolment ==
  [][\A tok \in issued, c \in TotpCodes, s \in Secrets :
       /\ GenerateMfaSecret(tok, s)
            => /\ users' = users
               /\ users[tok.sub].mfaEnabled => last'.result = "alreadyEnabled"
               /\ (Authenticated(tok) /\ ~users[tok.sub].mfaEnabled)
                    => last'.result = s
       /\ (EnableMfa(tok, c, s) /\ Authenticated(tok) /\ ~users[tok.sub].mfaEnabled)
            => IF c = s
                 THEN /\ last'.result = "ok"
                      /\ users' = [users EXCEPT ![tok.sub].mfaEnabled = TRUE,
                                                ![tok.sub].mfaSecret = s]
                 ELSE /\ last'.result = "invalidCode"
                      /\ users' = users]_vars

\* an enrolment was refused for a bad code and the account has no secret
W22_BadCodeLeftNothing ==
  /\ last.op = "enableMfa" /\ last.result = "invalidCode"
  /\ MfaState(last.who) = <<FALSE, None>>

\* C23 (as claimed): while mfaEnabled stays true the stored mfaSecret does not
\* change, also when two enableMfa calls with different candidate secrets
\* overlap.
C23_SecretWriteOnce ==
  [][\A u \in EnrolUsers :
       (users[u].mfaEnabled /\ users'[u].mfaEnabled)
         => users'[u].mfaSecret = users[u].mfaSecret]_vars

----------------------------------------------------------------------------
(* Logs and payloads: the four public calls under both values of NODE_ENV   *)

LogEmails == {"ana", UnknownEmail}
LogPasswords == {"pw1"}
NodeEnvIsProduction == BOOLEAN

NextLogs ==
  \/ \E e \in NewEmails, p \in LogPasswords, o \in SendOutcomes,
        production \in NodeEnvIsProduction : Register(e, p, o, production)
  \/ \E e \in LogEmails, ip \in Ips, o \in SendOutcomes,
        production \in NodeEnvIsProduction :
       nextTok < MaxTokens /\ RequestPasswordReset(e, ip, o, production)
  \/ \E e \in NewEmails, o \in SendOutcomes, production \in NodeEnvIsProduction :
       ResendVerificationEmail(e, o, production)
  \/ \E e \in LogEmails, p \in LogPasswords : Login(e, p)

SpecLogs == Init /\ [][NextLogs]_vars

\* C24 (as claimed): no log line and no response of register,
\* requestPasswordReset, resendVerificationEmail or login holds the value of a
\* password-reset token or of an email-verification token, whatever NODE_ENV
\* is (no handler writes a password to either, so none is modelled there).
C24_NoSecretExposed ==
  last.op \in {"register", "requestPasswordReset", "resendVerification", "login"}
    => last.logged = {} /\ last.payload = {}

----------------------------------------------------------------------------
(* AuthService.register, one database call at a time: findByEmail, then      *)
(* UsersService.create (findUnique, insert), then the verification token     *)

RegisterVars == <<now, loginAttempts, refreshTokens, revokedTokens, issued, procs,
                  fails, lastLogin, consumed, tornDown, mfaFailed, passwordResets,
                  passwordResetAttempts,
                  client>>

RegisterReturn(p, result) ==
  /\ calls' = [calls EXCEPT ![p] = NoCall]
  /\ last' = Call("register", calls[p].email, result, NoToken, 0, 0)

\* faulty variant: the users table has no unique index on email, the insert
\* of a second row for the email goes through
insertUser_noUniqueIndex(rows, email, password) ==
  [inserted |-> TRUE, rows |-> (email :> createUser(password)) @@ rows]

\* prisma.user.create: email is a unique column (it is the key of
\* prisma.user.findUnique), a second row for the email is refused
insertUser(rows, email, password) ==
  IF email \in DOMAIN rows
    THEN [inserted |-> FALSE, rows |-> rows]
    ELSE [inserted |-> TRUE, rows |-> (email :> createUser(password)) @@ rows]

\* the ValidationPipe, then const existingUser = await
\* usersService.findByEmail(registerDto.email)
RegisterFind(p, email, password) ==
  /\ calls[p].pc = "idle"
  /\ IF passwordTooShort(password) \/ ~passwordRegexTest(password)
       THEN /\ calls' = calls
            /\ last' = Call("register", email, "badRequest", NoToken, 0, 0)
       ELSE IF findByEmail(email) # None
       THEN /\ calls' = calls
            /\ last' = Call("register", email, "conflict", NoToken, 0, 0)
       ELSE /\ calls' = [calls EXCEPT ![p] =
                           [NoCall EXCEPT !.pc = "create", !.email = email,
                                          !.secret = password]]
            /\ last' = last
  /\ UNCHANGED <<users, nextTok, emailVerifications, mails, tokenFate>>
  /\ UNCHANGED RegisterVars

\* UsersService.create: const existingUser = await prisma.user.findUnique(...)
UsersCreateFind(p) ==
  /\ calls[p].pc = "create"
  /\ IF findByEmail(calls[p].email) # None
       THEN RegisterReturn(p, "conflict")
       ELSE /\ calls' = [calls EXCEPT ![p].pc = "insert"]
            /\ last' = last
  /\ UNCHANGED <<users, nextTok, emailVerifications, mails, tokenFate>>
  /\ UNCHANGED RegisterVars

\* UsersService.create: await prisma.user.create(...); the error of the unique
\* index is not caught and reaches the caller as it is
UsersCreateInsert(p) ==
  LET done == insertUser(users, calls[p].email, calls[p].secret) IN
  /\ calls[p].pc = "insert"
  /\ users' = done.rows
  /\ IF done.inserted
       THEN /\ calls' = [calls EXCEPT ![p].pc = "verification"]
            /\ last' = last
       ELSE RegisterReturn(p, "uniqueViolation")
  /\ UNCHANGED <<nextTok, emailVerifications, mails, tokenFate>>
  /\ UNCHANGED RegisterVars

\* prisma.emailVerification.create, sendVerificationEmail and the response
RegisterVerification(p, outcome, production) ==
  LET email == calls[p].email
      verificationToken == generateVerificationToken
      row == [id |-> verificationToken, userId |-> email, token |-> verificationToken,
              expiresAt |-> VerificationExpiry(now)]
  IN
  /\ calls[p].pc = "verification"
  /\ nextTok < MaxTokens
  /\ nextTok' = verificationToken
  /\ calls' = [calls EXCEPT ![p] = NoCall]
  /\ mails' = Notify("verification", email, verificationToken, outcome)
  /\ IF sendVerificationEmailThrows(outcome)
       THEN /\ emailVerifications' = {r \in emailVerifications : r.userId # email}
            /\ tokenFate' = Retire(Issue(tokenFate, verificationToken, "verify", email),
                                   {verificationToken}, "rolledBack")
            /\ last' = IF production
                         THEN Call("register", email, "sendFailed", NoToken, 0, 0)
                         ELSE Exposing(Call("register", email, "ok", NoToken, 0,
                                            verificationToken),
                                       logVerification(verificationToken, outcome,
                                                       production),
                                       {verificationToken})
       ELSE /\ emailVerifications' = emailVerifications \cup {row}
            /\ tokenFate' = Issue(tokenFate, verificationToken, "verify", email)
            /\ last' = Exposing(Call("register", email, "ok", NoToken, 0, 0),
                                logVerification(verificationToken, outcome,
                                                production), {})
  /\ UNCHANGED users
  /\ UNCHANGED RegisterVars

----------------------------------------------------------------------------
(* Duplicate registration: two requests for the same email, one after the    *)
(* other and overlapping                                                     *)

DuplicateEmails == {"ana", UnknownEmail}
DuplicatePasswords == {"pw1", "pw2", "plain"}

NextDuplicate ==
  \/ \E e \in DuplicateEmails, p \in DuplicatePasswords, o \in SendOutcomes,
        production \in BOOLEAN : Register(e, p, o, production)
  \/ \E p \in Procs, e \in DuplicateEmails, pw \in DuplicatePasswords :
       RegisterFind(p, e, pw)
  \/ \E p \in Procs : UsersCreateFind(p)
  \/ \E p \in Procs : UsersCreateInsert(p)
  \/ \E p \in Procs, o \in SendOutcomes, production \in BOOLEAN :
       RegisterVerification(p, o, production)

SpecDuplicate == Init /\ [][NextDuplicate]_vars

\* C25: register with valid input for an email that has an account is rejected
\* with the conflict error and creates nothing; and no step of a registration,
\* also of two overlapping ones for the same email, creates a second account
\* for an email or replaces the account the email has.
C25_OneAccountPerEmail ==
  [][/\ \A e \in Emails, p \in NewPasswords, o \in SendOutcomes, production \in BOOLEAN :
          (/\ Register(e, p, o, production)
           /\ e \in DOMAIN users
           /\ ~passwordTooShort(p) /\ passwordRegexTest(p))
            => /\ last'.result = "conflict"
               /\ users' = users /\ emailVerifications' = emailVerifications
               /\ mails' = mails
     /\ \A e \in DOMAIN users : e \in DOMAIN users' /\ users'[e] = users[e]]_vars

\* two overlapping registrations of one email: the second insert was refused
W25_SecondInsertRefused ==
  /\ last.op = "register" /\ last.result = "uniqueViolation"
  /\ last.who \in DOMAIN users

----------------------------------------------------------------------------
(* Two runs of requestPasswordReset side by side: the same calls at the same *)
(* times, run A for the email of an account and run B for an email without   *)
(* one. Each run has its own origin address, so that the per-IP counter of   *)
(* one run is not fed by the other; the notifier always delivers.            *)

RunA == [email |-> "ana", ipAddress |-> "ipA"]
RunB == [email |-> UnknownEmail, ipAddress |-> "ipB"]
PairSteps == {15, 30, 60}

\* run A has made a call that run B has still to make
AwaitingRunB == last.op = "requestPasswordReset" /\ last.who = RunA.email

NextPair ==
  \/ \E d \in PairSteps : ~AwaitingRunB /\ Tick(d, MaxRecoveryTime)
  \/ ~AwaitingRunB /\ RequestPasswordReset(RunA.email, RunA.ipAddress, "sent", TRUE)
  \/ AwaitingRunB /\ RequestPasswordReset(RunB.email, RunB.ipAddress, "sent", TRUE)

SpecPair == Init /\ [][NextPair]_vars

\* what the caller sees of a call: HTTP 200 with the generic message, or a
\* rate-limit rejection
Visible(result) == IF result = "ok" THEN "success" ELSE "rejected"

\* C26 (as claimed): with the notifier delivering, each call of run B (email
\* without an account) has the caller-visible outcome of the same call of
\* run A (email of an account), made at the same time from an address with
\* the same history.
C26_ResetNoninterference ==
  [][(AwaitingRunB /\ RequestPasswordReset(RunB.email, RunB.ipAddress, "sent", TRUE))
       => Visible(last'.result) = Visible(last.result)]_vars

----------------------------------------------------------------------------
(* Claims about the revocation ledger *)

\* C28: an access token that revokeToken has stored in revoked_tokens is
\* rejected by the access-token validation from then on, whenever the sweep
\* of a revokeToken runs: the revoking call leaves the row of its token
\* stored, while the row is stored the token is rejected, and a step removes
\* the row only when the token has expired, after which the expiry test of
\* the validation rejects it for good.
C28_RevokedStaysRejected ==
  /\ [](\A r \in revokedTokens : ~Authenticated(r.token))
  /\ [][/\ now' >= now
        /\ \A tok \in issued :
             (Logout(tok) /\ Authenticated(tok))
               => \E q \in revokedTokens' : q.token = tok
        /\ \A r \in revokedTokens :
             \/ \E q \in revokedTokens' : q.token = r.token
             \/ now' >= r.token.exp]_vars

\* both accounts have logged out and the sweep of the second logout has
\* deleted the expired row of the first
W28_ExpiredRowSwept ==
  /\ last.op = "logout" /\ last.result = "ok"
  /\ \A u \in Users : users[u].lastLogoutAt # Null
  /\ \E u \in Users : \A r \in revokedTokens : r.userId # u

----------------------------------------------------------------------------
(* Claims about the password policy of resetPassword *)

Compliant(p) ==
  /\ PasswordShape[p].length >= 8
  /\ PasswordShape[p].lower /\ PasswordShape[p].upper
  /\ PasswordShape[p].digit /\ PasswordShape[p].symbol

UsableReset(t) ==
  \E r \in passwordResets :
    r.token = t /\ ~(r.expiresAt < now) /\ r.email \in DOMAIN users

\* C29: resetPassword with a stored, unexpired token of an account and a new
\* password that is shorter than 8 characters or lacks a lower-case letter,
\* an upper-case letter, a digit or a symbol is rejected and changes neither
\* the accounts nor the password_resets rows; with a compliant password the
\* same call succeeds, so the token is still usable after the rejection.
C29_WeakPasswordChangesNothing ==
  [][\A t \in 1..nextTok, p \in NewPasswords :
       (ResetPassword(t, p) /\ UsableReset(t))
         => IF Compliant(p)
              THEN /\ last'.result = "ok"
                   /\ users'[last'.who].password = p
              ELSE /\ last'.result \in {"tooShort", "tooSimple"}
                   /\ users' = users
                   /\ passwordResets' = passwordResets
                   /\ tokenFate' = tokenFate]_vars

\* a reset was refused for its password and its token is still stored and
\* unexpired
W29_TokenKeptAfterWeakPassword ==
  /\ last.op = "resetPassword"
  /\ last.result \in {"tooShort", "tooSimple"}
  /\ UsableReset(last.arg)

----------------------------------------------------------------------------
(* AuthService.resendVerificationEmail, in two parts: the lookup of the      *)
(* account, then the replacement of the token and the send                   *)

ResendVars == <<now, users, loginAttempts, refreshTokens, revokedTokens, issued,
                procs, fails, lastLogin, consumed, tornDown, mfaFailed,
                passwordResets, passwordResetAttempts,
                client>>

\* const user = await usersService.findByEmail(email) and the two early exits
ResendFind(p, email) ==
  LET user == findByEmail(email) IN
  /\ calls[p].pc = "idle"
  /\ IF user = None
       THEN /\ calls' = calls
            /\ last' = Call("resendVerification", email, "ok", NoToken, 0, 0)
       ELSE IF users[user].emailVerified
       THEN /\ calls' = calls
            /\ last' = Call("resendVerification", email, "alreadyVerified", NoToken, 0, 0)
       ELSE /\ calls' = [calls EXCEPT ![p] = [NoCall EXCEPT !.pc = "store", !.email = email]]
            /\ last' = last
  /\ UNCHANGED <<nextTok, emailVerifications, mails, tokenFate>>
  /\ UNCHANGED ResendVars

\* prisma.emailVerification.deleteMany, create, then sendVerificationEmail
ResendStore(p, outcome, production) ==
  LET email == calls[p].email
      verificationToken == generateVerificationToken
      row == [id |-> verificationToken, userId |-> email, token |-> verificationToken,
              expiresAt |-> VerificationExpiry(now)]
      before == {r.token : r \in {q \in emailVerifications : q.userId = email}}
  IN
  /\ calls[p].pc = "store"
  /\ nextTok < MaxTokens
  /\ nextTok' = verificationToken
  /\ calls' = [calls EXCEPT ![p] = NoCall]
  /\ emailVerifications' = {r \in emailVerifications : r.userId # email} \cup {row}
  /\ tokenFate' = Issue(Retire(tokenFate, before, "superseded"),
                        verificationToken, "verify", email)
  /\ mails' = Notify("verification", email, verificationToken, outcome)
  /\ last' = Exposing(Call("resendVerification", email,
                           IF sendVerificationEmailThrows(outcome)
                             THEN "sendFailed" ELSE "ok",
                           NoToken, 0, 0),
                      logVerification(verificationToken, outcome, production), {})
  /\ UNCHANGED ResendVars

----------------------------------------------------------------------------
(* Verification: an account registers and verifies its email while a resend  *)
(* of the verification mail is under way                                     *)

NextSingleUse ==
  \/ \E e \in NewEmails, p \in LogPasswords, o \in SendOutcomes :
       Register(e, p, o, TRUE)
  \/ \E t \in 1..nextTok : VerifyEmail(t)
  \/ \E p \in Procs, e \in NewEmails : ResendFind(p, e)
  \/ \E p \in Procs, o \in SendOutcomes : ResendStore(p, o, TRUE)

SpecSingleUse == Init /\ [][NextSingleUse]_vars

LiveVerification(t) ==
  \E r \in emailVerifications :
    r.token = t /\ ~(r.expiresAt < now) /\ r.userId \in DOMAIN users

OwnerOf(t) == (CHOOSE r \in emailVerifications : r.token = t).userId

\* C30: verifyEmail with a stored, unexpired token of an unverified account
\* sets emailVerified and deletes the row of the token; with such a token of
\* an account that is already verified it is rejected and deletes the row
\* too; verifyEmail with a token that was used is rejected as invalid and
\* changes nothing; and no step takes emailVerified from true to false.
C30_VerificationSingleUse ==
  [][/\ \A t \in 1..nextTok :
          (VerifyEmail(t) /\ LiveVerification(t))
            => /\ \A r \in emailVerifications' : r.token # t
               /\ IF users[OwnerOf(t)].emailVerified
                    THEN last'.result = "alreadyVerified" /\ users' = users
                    ELSE /\ last'.result = "ok"
                         /\ users' = [users EXCEPT ![OwnerOf(t)].emailVerified = TRUE]
     /\ \A t \in 1..nextTok :
          (VerifyEmail(t) /\ FateOf(t) = "used")
            => /\ last'.result = "invalid"
               /\ users' = users /\ emailVerifications' = emailVerifications
     /\ \A e \in DOMAIN users :
          users[e].emailVerified => (e \in DOMAIN users' /\ users'[e].emailVerified)]_vars

\* a used token was presented again and refused, after a token issued by an
\* overlapping resend had been refused for the verified account and deleted
W30_UsedTokenRefused ==
  /\ last.op = "verifyEmail" /\ last.result = "invalid"
  /\ FateOf(last.arg) = "used"
  /\ \E t \in DOMAIN tokenFate : tokenFate[t].fate = "discarded"

----------------------------------------------------------------------------
(* PasswordResetService.resetPassword, one database call at a time:          *)
(* findUnique and the checks, user.update, passwordReset.delete              *)

ResetRaceVars == <<now, loginAttempts, refreshTokens, revokedTokens, nextTok, issued,
                   procs, fails, lastLogin, consumed, tornDown, mfaFailed,
                   passwordResetAttempts, emailVerifications, mails,
                   client>>

\* const reset = await prisma.passwordReset.findUnique({where: {token}}), the
\* expiry test, usersService.findByEmail and the validation of newPassword
ResetFind(p, token, newPassword) ==
  LET found == {r \in passwordResets : r.token = token} IN
  /\ calls[p].pc = "idle"
  /\ IF found = {}
       THEN /\ last' = Call("resetPassword", None, "notFound", NoToken, 0, token)
            /\ UNCHANGED <<calls, passwordResets, tokenFate>>
       ELSE
         LET reset == CHOOSE r \in found : TRUE IN
         IF resetTokenExpired(reset, now)
           THEN /\ last' = Call("resetPassword", reset.email, "expired", NoToken, 0, token)
                /\ passwordResets' = deleteResetToken(passwordResets, token)
                /\ tokenFate' = Retire(tokenFate, {token}, "expired")
                /\ calls' = calls
         ELSE IF findByEmail(reset.email) = None
           THEN /\ last' = Call("resetPassword", reset.email, "noUser", NoToken, 0, token)
                /\ UNCHANGED <<calls, passwordResets, tokenFate>>
         ELSE IF passwordTooShort(newPassword)
           THEN /\ last' = Call("resetPassword", reset.email, "tooShort", NoToken, 0, token)
                /\ UNCHANGED <<calls, passwordResets, tokenFate>>
         ELSE IF ~passwordRegexTest(newPassword)
           THEN /\ last' = Call("resetPassword", reset.email, "tooSimple", NoToken, 0, token)
                /\ UNCHANGED <<calls, passwordResets, tokenFate>>
         ELSE /\ calls' = [calls EXCEPT ![p] =
                             [NoCall EXCEPT !.pc = "update", !.email = reset.email,
                                            !.id = token, !.secret = newPassword]]
              /\ UNCHANGED <<last, passwordResets, tokenFate>>
  /\ UNCHANGED users
  /\ UNCHANGED ResetRaceVars

\* await prisma.user.update({where: {email}, data: {password: hashedPassword}})
ResetUpdate(p) ==
  /\ calls[p].pc = "update"
  /\ users' = [users EXCEPT ![calls[p].email].password = calls[p].secret]
  /\ calls' = [calls EXCEPT ![p].pc = "delete"]
  /\ UNCHANGED <<last, passwordResets, tokenFate>>
  /\ UNCHANGED ResetRaceVars

\* await prisma.passwordReset.delete({where: {token}}).catch(() => {}): the
\* error of deleting a row that is gone is swallowed, the call returns
ResetDelete(p) ==
  /\ calls[p].pc = "delete"
  /\ passwordResets' = deleteResetToken(passwordResets, calls[p].id)
  /\ tokenFate' = Retire(tokenFate, {calls[p].id}, "used")
  /\ calls' = [calls EXCEPT ![p] = NoCall]
  /\ last' = Call("resetPassword", calls[p].email, "ok", NoToken, 0, calls[p].id)
  /\ UNCHANGED users
  /\ UNCHANGED ResetRaceVars

----------------------------------------------------------------------------
(* Overlapping resets: one account asks for reset tokens and presents them   *)
(* in calls that overlap                                                     *)

ResetRacePasswords == {"pw1", "pw2", "short"}

NextResetRace ==
  \/ \E e \in RegisteredEmails, ip \in Ips :
       nextTok < MaxTokens /\ RequestPasswordReset(e, ip, "sent", TRUE)
  \/ \E p \in Procs, t \in 1..nextTok, pw \in ResetRacePasswords : ResetFind(p, t, pw)
  \/ \E p \in Procs : ResetUpdate(p)
  \/ \E p \in Procs : ResetDelete(p)

SpecResetRace == Init /\ [][NextResetRace]_vars

\* C31 (as claimed): of the resetPassword calls that present one token, also
\* when they overlap, at most one succeeds: no call returns success for a
\* token for which a call has returned success before, and no call stores a
\* password for a token under which another call has already stored one.
C31_AtMostOneResetSucceeds ==
  [][\A p \in Procs :
       /\ ResetDelete(p) => FateOf(calls[p].id) # "used"
       /\ ResetUpdate(p)
            => \A q \in Procs \ {p} :
                 ~(calls[q].pc = "delete" /\ calls[q].id = calls[p].id)]_vars

----------------------------------------------------------------------------
(* Claims about disabling the second factor *)

\* C32: disableMfa of an authenticated caller is rejected when mfaEnabled is
\* false and otherwise sets mfaEnabled = false and mfaSecret = null in one
\* step; while the account has no second factor, login with the correct
\* password answers with an access and a refresh token, and verifyMfa with a
\* pending assertion of the account is rejected and signs nothing.
C32_DisableMfa ==
  [][/\ \A tok \in issued :
          (DisableMfa(tok) /\ Authenticated(tok))
            => IF users[tok.sub].mfaEnabled
                 THEN /\ last'.result = "ok"
                      /\ users' = [users EXCEPT ![tok.sub].mfaEnabled = FALSE,
                                                ![tok.sub].mfaSecret = None]
                 ELSE last'.result = "notEnabled" /\ users' = users
     /\ \A u \in MfaUsers :
          (Login(u, users[u].password) /\ ~users[u].mfaEnabled)
            => /\ last'.result = "ok"
               /\ last'.access \in issued' /\ ~last'.access.mfaPending
               /\ \E r \in refreshTokens' : r.token = last'.refresh /\ r.userId = u
     /\ \A tok \in issued, c \in TotpCodes :
          (VerifyMfa(tok, c) /\ tok.mfaPending /\ ~users[tok.sub].mfaEnabled)
            => /\ last'.result = "mfaNotConfigured"
               /\ issued' = issued /\ refreshTokens' = refreshTokens]_vars

\* a pending assertion signed while the second factor was on has been
\* refused after the disable
W32_PendingRefusedAfterDisable ==
  /\ last.op = "verifyMfa" /\ last.result = "mfaNotConfigured"
  /\ last.arg.mfaPending
  /\ users[last.who].mfaSecret = None

\* C33 (as claimed): a token that login signed with mfaPending = true is
\* never accepted by the access-token validation, so no operation behind
\* JwtAuthGuard (disableMfa, generateMfaSecret, logout) acts for a caller who
\* presents it.
C33_PendingIsNoCredential ==
  /\ [](\A tok \in issued : tok.mfaPending => ~Authenticated(tok))
  /\ [][\A tok \in issued :
          (tok.mfaPending /\ (DisableMfa(tok) \/ Logout(tok)))
            => last'.result = "unauthorized" /\ users' = users]_vars

----------------------------------------------------------------------------
(* Password guessing: overlapping logins with a wrong password for the email *)
(* of an account                                                             *)

GuessEmails == {"ana"}
GuessSteps == {15}

NextGuess ==
  \/ \E d \in GuessSteps : Tick(d, MaxSessionTime)
  \/ \E p \in Procs, e \in GuessEmails : FailedLoginCheck(p, e)
  \/ \E p \in Procs : RecordFind(p)
  \/ \E p \in Procs : RecordFindOld(p)
  \/ \E p \in Procs : RecordWrite(p)

SpecGuess == Init /\ [][NextGuess]_vars

\* the logins of the email that have passed checkBruteForceProtection and
\* compared the password, and have not recorded the failure yet
Comparing(e) == {p \in Procs : calls[p].pc # "idle" /\ calls[p].email = e}

\* C34 (as claimed): for every interleaving of logins, the stored attempts
\* value of an email never exceeds MAX_LOGIN_ATTEMPTS, and the password
\* comparisons counted by the stored value together with those of the
\* logins still under way never exceed it either.
C34_BoundedGuesses ==
  \A e \in GuessEmails :
    /\ \A r \in loginAttempts : r.email = e => r.attempts <= MAX_LOGIN_ATTEMPTS
    /\ \A r \in loginAttempts :
         (r.email = e /\ r.lastAttemptAt >= now - ATTEMPT_WINDOW_MINUTES)
           => r.attempts + Cardinality(Comparing(e)) <= MAX_LOGIN_ATTEMPTS

----------------------------------------------------------------------------
(* refreshAccessToken calls in flight while the user logs out *)

RaceLogoutSteps == {5}

NextRaceLogout ==
  \/ \E d \in RaceLogoutSteps : Tick(d, MaxSessionTime)
  \/ \E u \in RaceUsers : Login(u, users[u].password)
  \/ \E tok \in issued : Logout(tok)
  \/ \E p \in Procs, rt \in 1..nextTok : RefreshFind(p, rt)
  \/ \E p \in Procs : RefreshCheck(p)
  \/ \E p \in Procs : RefreshUpdate(p)
  \/ \E p \in Procs : RefreshReturn(p)

SpecRaceLogout == Init /\ [][NextRaceLogout]_vars

\* the call of p has read its row, and a logout of the row's user has deleted
\* the row since: either as the call read it, or as the call rotated it
LoggedOutSinceRead(p) ==
  /\ procs[p].tokenRecord # NoRow
  /\ \/ procs[p].refreshToken \in tornDown
     \/ procs[p].refresh # 0 /\ procs[p].refresh \in tornDown

\* C35: when the user of a refresh-token row logs out after a
\* refreshAccessToken call has read the row, the row is gone and the call
\* does not bring it back: no row has the id the call read, the token the
\* call returns is the token of no row, and a call whose update comes after
\* the logout fails and changes no row.
C35_LogoutWinsRace ==
  /\ [](\A p \in Procs :
          LoggedOutSinceRead(p) =>
            /\ ~\E r \in refreshTokens : r.id = procs[p].tokenRecord.id
            /\ procs[p].pc = "done" =>
                 ~\E r \in refreshTokens :
                    r.token \in {procs[p].refresh, procs[p].refreshToken})
  /\ [][\A p \in Procs :
          (RefreshUpdate(p) /\ procs[p].refreshToken \in tornDown)
            => /\ procs'[p].result = "error"
               /\ refreshTokens' = refreshTokens]_vars

\* C35 witness: a call read its row, the user logged out, and the call's
\* update then failed.
W35_UpdateAfterLogoutFails ==
  \E p \in Procs :
    /\ procs[p].pc = "done" /\ procs[p].result = "error"
    /\ procs[p].refreshToken \in tornDown

----------------------------------------------------------------------------
(* Reset requests of one email among the operations that delete its row *)

\* prisma.passwordReset.deleteMany({where: {expiresAt: {lt: now}}})
CleanupExpiredTokens ==
  LET expired == {r \in passwordResets : r.expiresAt < now} IN
  /\ passwordResets' = passwordResets \ expired
  /\ tokenFate' = Retire(tokenFate, {r.token : r \in expired}, "expired")
  /\ last' = Call("cleanupExpiredTokens", None, "ok", NoToken, Cardinality(expired), 0)
  /\ UNCHANGED <<now, users, loginAttempts, refreshTokens, revokedTokens, nextTok,
                 issued, procs, fails, lastLogin, consumed, tornDown, mfaFailed,
                 passwordResetAttempts, emailVerifications, mails, calls, client>>

IssuanceEmails == {"ana"}
IssuanceSteps == {15}
IssuancePasswords == {"pw2"}

NextIssuance ==
  \/ \E d \in IssuanceSteps : Tick(d, MaxRecoveryTime)
  \/ \E e \in IssuanceEmails, ip \in Ips, o \in ResetOutcomes :
       RequestPasswordReset(e, ip, o, TRUE)
  \/ \E t \in 1..nextTok : VerifyResetToken(t)
  \/ \E t \in 1..nextTok, p \in IssuancePasswords : ResetPassword(t, p)
  \/ CleanupExpiredTokens

SpecIssuance == Init /\ [][NextIssuance]_vars

\* the reset tokens of the email whose mail the notifier accepted
IssuedTo(e) ==
  {t \in DOMAIN tokenFate :
     /\ tokenFate[t].kind = "reset" /\ tokenFate[t].owner = e
     /\ tokenFate[t].fate # "rolledBack"}

\* C36 (as claimed, for the window that starts at time 0): during the first
\* RATE_LIMIT_WINDOW_HOURS no email has been issued more than
\* MAX_ATTEMPTS_PER_HOUR reset tokens, whichever operations deleted its
\* password_resets row in between.
C36_IssuanceBoundSurvivesDeletion ==
  \A e \in IssuanceEmails :
    now < RATE_LIMIT_WINDOW_HOURS * MinutesPerHour
      => Cardinality(IssuedTo(e)) <= MAX_ATTEMPTS_PER_HOUR

----------------------------------------------------------------------------
(* AuthService.disableMfa, one database call at a time, among enableMfa      *)
(* calls in flight                                                           *)

\* const user = await prisma.user.findUnique(...) and the test of mfaEnabled
DisableMfaFind(p, tok) ==
  /\ calls[p].pc = "idle"
  /\ Authenticated(tok)
  /\ IF ~users[tok.sub].mfaEnabled
       THEN /\ last' = Call("disableMfa", tok.sub, "notEnabled", NoToken, 0, tok)
            /\ calls' = calls
       ELSE /\ last' = last
            /\ calls' = [calls EXCEPT ![p] =
                           [NoCall EXCEPT !.pc = "disable", !.email = tok.sub]]
  /\ UNCHANGED users
  /\ UNCHANGED EnrolVars

\* await prisma.user.update({where: {id: userId}, data: {mfaEnabled: false,
\* mfaSecret: null}})
DisableMfaUpdate(p) ==
  /\ calls[p].pc = "disable"
  /\ users' = [users EXCEPT ![calls[p].email].mfaEnabled = FALSE,
                            ![calls[p].email].mfaSecret = None]
  /\ calls' = [calls EXCEPT ![p] = NoCall]
  /\ last' = Call("disableMfa", calls[p].email, "ok", NoToken, 0, NoToken)
  /\ UNCHANGED EnrolVars

NextConsistency ==
  \/ \E u \in EnrolUsers : Login(u, users[u].password)
  \/ \E tok \in issued, c \in TotpCodes : VerifyMfa(tok, c)
  \/ \E p \in Procs, tok \in issued, c \in TotpCodes, s \in Secrets :
       EnableMfaFind(p, tok, c, s)
  \/ \E p \in Procs : EnableMfaUpdate(p)
  \/ \E p \in Procs, tok \in issued : DisableMfaFind(p, tok)
  \/ \E p \in Procs : DisableMfaUpdate(p)

SpecConsistency == Init /\ [][NextConsistency]_vars

\* C37: in every state mfaEnabled is true exactly when mfaSecret is set,
\* whichever way the steps of enableMfa and disableMfa calls interleave, and
\* verifyMfa answers "not configured" only for an account whose second
\* factor is off.
C37_EnrolmentConsistent ==
  /\ [](\A u \in Users : users[u].mfaEnabled <=> users[u].mfaSecret # None)
  /\ [][\A tok \in issued, c \in TotpCodes :
          (VerifyMfa(tok, c) /\ last'.result = "mfaNotConfigured")
            => ~users[tok.sub].mfaEnabled]_vars

\* C37 witness: while the second factor is on, a disableMfa call and an
\* enableMfa call are both between their read and their write.
W37_EnableAndDisableInFlight ==
  \E p \in Procs, q \in Procs :
    /\ calls[p].pc = "disable" /\ calls[q].pc = "update"
    /\ users[calls[p].email].mfaEnabled
    /\ calls[q].email = calls[p].email

----------------------------------------------------------------------------
(* A password reset of an account that has sessions and failed logins *)

FrameUsers == {"ana"}
FrameSteps == {15}

NextFrame ==
  \/ \E d \in FrameSteps : Tick(d, MaxSessionTime)
  \/ \E u \in FrameUsers, p \in Passwords : Login(u, p)
  \/ \E rt \in 1..nextTok : RefreshAccessToken(rt)
  \/ \E e \in FrameUsers, ip \in Ips :
       nextTok < MaxTokens /\ RequestPasswordReset(e, ip, "sent", TRUE)
  \/ \E t \in 1..nextTok, p \in StrongPasswords : ResetPassword(t, p)

SpecFrame == Init /\ [][NextFrame]_vars

\* the last call was a successful resetPassword of e
JustReset(e) ==
  last.op = "resetPassword" /\ last.result = "ok" /\ last.who = e

\* C38: a successful resetPassword changes the user's password, deletes the
\* password_resets row and changes nothing else: refresh tokens, revocation
\* ledger, lastLogoutAt, login-attempt counter and MFA enrolment stay as they
\* were. A refresh token issued before the reset is accepted right after it,
\* and a login right after it is refused while the email is locked out.
C38_ResetFrame ==
  [][/\ \A t \in 1..nextTok, p \in StrongPasswords :
          (ResetPassword(t, p) /\ last'.result = "ok") =>
            /\ users' = [users EXCEPT ![last'.who].password = p]
            /\ passwordResets' = {r \in passwordResets : r.token # t}
            /\ refreshTokens' = refreshTokens
            /\ revokedTokens' = revokedTokens
            /\ loginAttempts' = loginAttempts
            /\ issued' = issued
            /\ \A e \in FrameUsers : LockedOut(e)' = LockedOut(e)
     /\ \A e \in FrameUsers, rt \in 1..nextTok :
          (/\ JustReset(e)
           /\ RefreshAccessToken(rt)
           /\ \E r \in refreshTokens :
                r.token = rt /\ r.userId = e /\ ~refreshTokenExpired(r, now))
            => /\ last'.result = "ok"
               /\ \E r \in refreshTokens' : r.token = last'.refresh /\ r.userId = e
     /\ \A e \in FrameUsers, p \in Passwords :
          (JustReset(e) /\ Login(e, p) /\ LockedOut(e))
            => last'.result = "locked"]_vars

\* C38 witness: a password reset succeeded for an account that holds a
\* refresh token and is locked out of login.
W38_ResetWithSessionAndLockout ==
  \E e \in FrameUsers :
    /\ JustReset(e)
    /\ \E r \in refreshTokens : r.userId = e
    /\ Locked(e)

----------------------------------------------------------------------------
(* The frontend API client (lib/axios.ts): the request interceptor, the      *)
(* refresh it starts and the queue of requests that wait for it. The server  *)
(* is the environment: it answers a request that was sent with ok or error. *)

ClientVars == <<users, loginAttempts, refreshTokens, revokedTokens, nextTok,
                procs, lastLogin, consumed, tornDown, last, RecoveryVars, calls>>

ClientUser == "ana"
StoredRefreshToken == 1
ServerAnswers == {"ok", "error"}

\* const buffer = 60 * 1000: one minute
TokenBuffer == 1

\* if (!token) return true; ...; return expirationTime - now < buffer
isTokenExpired(token, t) ==
  IF token = NoToken THEN TRUE ELSE token.exp - t < TokenBuffer

ClientStep ==
  /\ UNCHANGED <<now, issued, mfaFailed, fails>>
  /\ UNCHANGED ClientVars

\* saveToken(access_token, refresh_token) with the tokens of a login answer
StoreLogin ==
  /\ client' = [client EXCEPT !.token = jwtSign(ClientUser, FALSE, now),
                              !.refreshToken = StoredRefreshToken]
  /\ ClientStep

\* the application calls apiClient.get/post/...: the request interceptor is
\* scheduled
ClientRequest(r) ==
  /\ r \in ApiRequests
  /\ client.requests[r].pc = "idle"
  /\ client' = [client EXCEPT !.requests[r] =
                  [pc |-> "queued", url |-> "api", parent |-> 0]]
  /\ ClientStep

FreeChildren == {c \in ChildRequests : client.requests[c].pc = "idle"}

\* the request that refreshToken(...) or logoutUser() makes through
\* apiClient.post on behalf of the request r whose interceptor awaits it
Spawn(requests, r, url) ==
  LET child == CHOOSE c \in FreeChildren : \A d \in FreeChildren : c <= d IN
  [requests EXCEPT ![r].pc = "awaiting",
                   ![child] = [pc |-> "queued", url |-> url, parent |-> r]]

\* apiClient.interceptors.request.use(async (config) => ...), up to its
\* first await or its return, for any request made through apiClient
Intercept(r) ==
  LET token == client.token IN
  /\ client.requests[r].pc = "queued"
  /\ IF token # NoToken /\ isTokenExpired(token, now)
       THEN IF client.refreshToken # 0
              THEN IF client.isRefreshing
                     THEN client' = [client EXCEPT
                                      !.failedQueue = Append(@, r),
                                      !.requests[r].pc = "parked"]
                     ELSE /\ FreeChildren # {}
                          /\ client' = [client EXCEPT
                                          !.isRefreshing = TRUE,
                                          !.requests = Spawn(@, r, "refresh")]
              ELSE /\ FreeChildren # {}
                   /\ client' = [client EXCEPT !.requests = Spawn(@, r, "logout")]
       ELSE client' = [client EXCEPT !.requests[r].pc = "sent"]
  /\ ClientStep

\* failedQueue.forEach(prom => error ? prom.reject(error) : prom.resolve(token))
processQueue(requests, failedQueue, error) ==
  LET parked == {failedQueue[i] : i \in 1..Len(failedQueue)} IN
  [r \in Requests |->
     IF r \in parked
       THEN [requests[r] EXCEPT !.pc = IF error THEN "failed" ELSE "sent"]
       ELSE requests[r]]

\* the request c has an outcome for the code that awaits it: the server's
\* answer when it was sent, an error when its interceptor rejected it
Settles(c, url, outcome) ==
  /\ client.requests[c].url = url
  /\ \/ client.requests[c].pc = "sent" /\ outcome \in ServerAnswers
     \/ client.requests[c].pc = "failed" /\ outcome = "error"

\* const tokens = await refreshToken(refreshTokenValue) returns or throws:
\* the rest of the try block, or the catch block up to await logout()
RefreshSettled(c, outcome) ==
  LET p == client.requests[c].parent IN
  /\ Settles(c, "refresh", outcome)
  /\ IF outcome = "ok"
       THEN client' = [client EXCEPT
              !.token = jwtSign(ClientUser, FALSE, now),
              !.refreshToken = StoredRefreshToken,
              !.failedQueue = <<>>,
              !.isRefreshing = FALSE,
              !.requests = [processQueue(@, client.failedQueue, FALSE) EXCEPT
                              ![p].pc = "sent", ![c] = NoRequest]]
       ELSE client' = [client EXCEPT
              !.failedQueue = <<>>,
              !.isRefreshing = FALSE,
              !.requests = [processQueue(@, client.failedQueue, TRUE) EXCEPT
                              ![c] = [pc |-> "queued", url |-> "logout",
                                      parent |-> p]]]
  /\ ClientStep

\* await logoutUser() inside logout() is over, whatever its outcome:
\* removeToken() and window.location.href = "/login", which loads a new page
LogoutSettled(c, outcome) ==
  /\ Settles(c, "logout", outcome)
  /\ client' = NoClient
  /\ ClientStep

\* the caller of an application request receives its response or its error
Complete(r) ==
  /\ r \in ApiRequests
  /\ client.requests[r].pc \in {"sent", "failed"}
  /\ client' = [client EXCEPT !.requests[r] = NoRequest]
  /\ ClientStep

ClientSteps == {5, 10}

NextClient ==
  \/ \E d \in ClientSteps : Tick(d, MaxSessionTime)
  \/ StoreLogin
  \/ \E r \in ApiRequests : ClientRequest(r)
  \/ \E r \in Requests : Intercept(r)
  \/ \E c \in ChildRequests, o \in ServerAnswers : RefreshSettled(c, o)
  \/ \E c \in ChildRequests, o \in ServerAnswers : LogoutSettled(c, o)
  \/ \E r \in ApiRequests : Complete(r)

SpecClient == Init /\ [][NextClient]_vars

\* the event loop runs every scheduled interceptor, and every request that
\* was sent is answered or times out
SpecClientFair ==
  /\ SpecClient
  /\ \A r \in Requests : WF_vars(Intercept(r))
  /\ \A c \in ChildRequests :
       /\ WF_vars(\E o \in ServerAnswers : RefreshSettled(c, o))
       /\ WF_vars(\E o \in ServerAnswers : LogoutSettled(c, o))

\* the request has passed the interceptor or has been rejected
Settled(r) == client.requests[r].pc \in {"sent", "failed", "idle"}

\* C39 (as claimed): a request issued while the stored access token is
\* expired and a refresh token is stored is eventually sent or fails; the
\* isRefreshing flag always returns to false; every request parked in
\* failedQueue is eventually resolved or rejected.
C39_ClientRefreshProgress ==
  /\ \A r \in ApiRequests :
       (/\ client.requests[r].pc = "queued"
        /\ client.token # NoToken /\ isTokenExpired(client.token, now)
        /\ client.refreshToken # 0) ~> Settled(r)
  /\ client.isRefreshing ~> ~client.isRefreshing
  /\ \A r \in Requests :
       (client.requests[r].pc = "parked") ~> (client.requests[r].pc # "parked")

====
